---- MODULE Spec2Model ----
(***************************************************************************)
(* fx-discord-news: entity extraction, impact scoring, duplicate           *)
(* suppression, threshold filtering and the scheduler jobs that drive      *)
(* them (src/fx-discord-news/src).                                         *)
(*                                                                         *)
(* Text is modelled at word level: a text is a sequence of words of Vocab  *)
(* joined by single spaces, and WordFacts records, for every word, what    *)
(* the code's substring tests, str.count and the \b regular expression     *)
(* find in it after upper() / lower().  A string in Japanese script is     *)
(* written "ja:" followed by its romanised reading.                        *)
(***************************************************************************)
EXTENDS Integers, Sequences, FiniteSets, TLC

(***************************************************************************)
(* Rule tables of EntityExtractor and ImpactScorer                         *)
(***************************************************************************)
CURRENCIES ==
    {"USD", "EUR", "JPY", "GBP", "AUD", "CAD", "CHF", "NZD", "CNY", "HKD", "SGD", "SEK", "NOK", "MXN", "ZAR", "TRY", "BRL", "RUB", "INR", "KRW"}

CENTRAL_BANKS ==
    ("FED" :> {"USD"}) @@
    ("FRB" :> {"USD"}) @@
    ("FOMC" :> {"USD"}) @@
    ("ECB" :> {"EUR"}) @@
    ("BOJ" :> {"JPY"}) @@
    ("ja:nichigin" :> {"JPY"}) @@
    ("BOE" :> {"GBP"}) @@
    ("RBA" :> {"AUD"}) @@
    ("BOC" :> {"CAD"}) @@
    ("SNB" :> {"CHF"}) @@
    ("RBNZ" :> {"NZD"}) @@
    ("PBOC" :> {"CNY"})

EVENT_CATEGORIES ==
    << [name |-> "policy_rate", keywords |-> {"rate decision", "policy rate", "interest rate", "ja:kinri-kettei", "ja:seisaku-kinri", "ja:riage", "ja:risage", "hawkish", "dovish", "tightening", "easing"}],
       [name |-> "official_comment", keywords |-> {"fed chair", "ecb president", "governor", "speech", "testimony", "press conference", "ja:gichou", "ja:sousai", "ja:hatsugen", "ja:kaiken"}],
       [name |-> "inflation", keywords |-> {"cpi", "pce", "inflation", "consumer price", "ja:shouhisha-bukka", "ja:infure", "ja:bukka"}],
       [name |-> "employment", keywords |-> {"nfp", "non-farm", "unemployment", "jobless", "ja:koyou-toukei", "ja:shitsugyouritsu", "ja:shinki-koyou"}],
       [name |-> "gdp", keywords |-> {"gdp", "gross domestic", "growth", "GDP", "ja:kokunai-souseisan", "ja:seichouritsu"}],
       [name |-> "pmi", keywords |-> {"pmi", "purchasing managers", "manufacturing", "PMI", "ja:seizougyou", "ja:saabisugyou"}],
       [name |-> "retail", keywords |-> {"retail sales", "consumer spending", "ja:kouri-uriage", "ja:shouhi-shishutsu"}],
       [name |-> "trade", keywords |-> {"trade balance", "current account", "exports", "ja:boueki-shuushi", "ja:keijou-shuushi", "ja:yushutsu"}] >>

CATEGORY_WEIGHTS ==
    ("policy_rate" :> 90) @@ ("official_comment" :> 70) @@ ("inflation" :> 65) @@ ("employment" :> 60) @@ ("gdp" :> 55) @@ ("pmi" :> 45) @@ ("retail" :> 40) @@ ("trade" :> 35) @@ ("other" :> 20)

HIGH_IMPACT_KEYWORDS ==
    {"surprise", "unexpected", "shock", "emergency", "crisis", "crash", "surge", "plunge", "soar", "record", "historic", "unprecedented", "ja:sapuraizu", "ja:yosougai", "ja:kyuutou", "ja:kyuuraku", "ja:kako-sai", "breaking", "alert", "urgent"}

LOW_IMPACT_KEYWORDS ==
    {"expected", "forecast", "predicted", "inline", "unchanged", "steady", "stable", "minor", "ja:yosou-doori", "ja:henka-nashi", "ja:antei", "ja:kohaba"}

Vocab ==
    {"EUR", "USD", "JPY", "TRY", "EURUSD", "ECB", "Fed", "BOJ", "ja:nichigin", "federal", "surprise", "unexpected", "expected", "stable", "rate decision", "cpi", "inflation", "PBOC", "forecast", "steady", "minor"}

WordFacts ==
    ("EUR" :> [word |-> {"EUR"}, count |-> ("EUR" :> 1), banks |-> {}, pairs |-> {}, keywords |-> {}]) @@
    ("USD" :> [word |-> {"USD"}, count |-> ("USD" :> 1), banks |-> {}, pairs |-> {}, keywords |-> {}]) @@
    ("JPY" :> [word |-> {"JPY"}, count |-> ("JPY" :> 1), banks |-> {}, pairs |-> {}, keywords |-> {}]) @@
    ("TRY" :> [word |-> {"TRY"}, count |-> ("TRY" :> 1), banks |-> {}, pairs |-> {}, keywords |-> {}]) @@
    ("EURUSD" :> [word |-> {}, count |-> ("EUR" :> 1) @@ ("USD" :> 1), banks |-> {}, pairs |-> {"EURUSD"}, keywords |-> {}]) @@
    ("ECB" :> [word |-> {}, count |-> <<>>, banks |-> {"ECB"}, pairs |-> {}, keywords |-> {}]) @@
    ("Fed" :> [word |-> {}, count |-> <<>>, banks |-> {"FED"}, pairs |-> {}, keywords |-> {}]) @@
    ("BOJ" :> [word |-> {}, count |-> <<>>, banks |-> {"BOJ"}, pairs |-> {}, keywords |-> {}]) @@
    ("ja:nichigin" :> [word |-> {}, count |-> <<>>, banks |-> {"ja:nichigin"}, pairs |-> {}, keywords |-> {}]) @@
    ("federal" :> [word |-> {}, count |-> <<>>, banks |-> {"FED"}, pairs |-> {}, keywords |-> {}]) @@
    ("surprise" :> [word |-> {}, count |-> <<>>, banks |-> {}, pairs |-> {}, keywords |-> {"surprise"}]) @@
    ("unexpected" :> [word |-> {}, count |-> <<>>, banks |-> {}, pairs |-> {}, keywords |-> {"expected", "unexpected"}]) @@
    ("expected" :> [word |-> {}, count |-> <<>>, banks |-> {}, pairs |-> {}, keywords |-> {"expected"}]) @@
    ("stable" :> [word |-> {}, count |-> <<>>, banks |-> {}, pairs |-> {}, keywords |-> {"stable"}]) @@
    ("rate decision" :> [word |-> {}, count |-> <<>>, banks |-> {}, pairs |-> {}, keywords |-> {"rate decision"}]) @@
    ("cpi" :> [word |-> {}, count |-> <<>>, banks |-> {}, pairs |-> {}, keywords |-> {"cpi"}]) @@
    ("inflation" :> [word |-> {}, count |-> <<>>, banks |-> {}, pairs |-> {}, keywords |-> {"inflation"}]) @@
    ("PBOC" :> [word |-> {}, count |-> <<>>, banks |-> {"BOC", "PBOC"}, pairs |-> {}, keywords |-> {}]) @@
    ("forecast" :> [word |-> {}, count |-> <<>>, banks |-> {}, pairs |-> {}, keywords |-> {"forecast"}]) @@
    ("steady" :> [word |-> {}, count |-> <<>>, banks |-> {}, pairs |-> {}, keywords |-> {"steady"}]) @@
    ("minor" :> [word |-> {}, count |-> <<>>, banks |-> {}, pairs |-> {}, keywords |-> {"minor"}])

PairLegs ==
    ("EURUSD" :> <<"EUR", "USD">>) @@ ("GBPUSD" :> <<"GBP", "USD">>) @@ ("AUDUSD" :> <<"AUD", "USD">>) @@
    ("NZDUSD" :> <<"NZD", "USD">>) @@ ("CADUSD" :> <<"CAD", "USD">>) @@ ("CHFUSD" :> <<"CHF", "USD">>) @@
    ("USDEUR" :> <<"USD", "EUR">>) @@ ("USDGBP" :> <<"USD", "GBP">>) @@ ("USDAUD" :> <<"USD", "AUD">>) @@
    ("USDNZD" :> <<"USD", "NZD">>) @@ ("USDCAD" :> <<"USD", "CAD">>) @@ ("USDCHF" :> <<"USD", "CHF">>) @@
    ("EURJPY" :> <<"EUR", "JPY">>) @@ ("GBPJPY" :> <<"GBP", "JPY">>) @@ ("AUDJPY" :> <<"AUD", "JPY">>) @@
    ("NZDJPY" :> <<"NZD", "JPY">>) @@ ("CADJPY" :> <<"CAD", "JPY">>) @@ ("CHFJPY" :> <<"CHF", "JPY">>) @@
    ("USDJPY" :> <<"USD", "JPY">>) @@ ("NZDCAD" :> <<"NZD", "CAD">>)

(***************************************************************************)
(* Bounds of the model                                                     *)
(***************************************************************************)
MaxTime == 3

Max(a, b) == IF a >= b THEN a ELSE b
Min(a, b) == IF a <= b THEN a ELSE b

Range(s) == {s[i] : i \in DOMAIN s}

Restrict(f, S) == [k \in S |-> f[k]]

(***************************************************************************)
(* Text primitives: `needle in text`, text.count(needle) and \bneedle\b    *)
(***************************************************************************)
Text == Seq(Vocab)

TextKeywords(text) == UNION {WordFacts[text[i]].keywords : i \in DOMAIN text}

TextBanks(text) == UNION {WordFacts[text[i]].banks : i \in DOMAIN text}

TextPairs(text) == UNION {WordFacts[text[i]].pairs : i \in DOMAIN text}

TextWords(text) == UNION {WordFacts[text[i]].word : i \in DOMAIN text}

RECURSIVE TextCount(_, _)
TextCount(text, token) ==
    IF text = <<>> THEN 0
    ELSE LET f == WordFacts[Head(text)].count
         IN  (IF token \in DOMAIN f THEN f[token] ELSE 0) + TextCount(Tail(text), token)

(***************************************************************************)
(* EntityExtractor                                                         *)
(***************************************************************************)
extract_currencies(text) ==
    IF text = <<>> THEN {}
    ELSE {c \in CURRENCIES : c \in TextWords(text)}
         \cup UNION {CENTRAL_BANKS[b] : b \in DOMAIN CENTRAL_BANKS \cap TextBanks(text)}

extract_central_banks(text) ==
    IF text = <<>> THEN {}
    ELSE {b \in DOMAIN CENTRAL_BANKS : b \in TextBanks(text)}

(* categorize_event keeping the last declared of the categories that tie *)
categorize_event_last(text) ==
    IF text = <<>> THEN "other"
    ELSE LET score(i) == Cardinality(EVENT_CATEGORIES[i].keywords \cap TextKeywords(text))
             scores == {i \in DOMAIN EVENT_CATEGORIES : score(i) > 0}
         IN  IF scores = {} THEN "other"
             ELSE LET best == CHOOSE i \in scores :
                                 \A j \in scores : score(i) > score(j)
                                                   \/ (score(i) = score(j) /\ i >= j)
                  IN  EVENT_CATEGORIES[best].name

categorize_event(text) ==
    IF text = <<>> THEN "other"
    ELSE LET score(i) == Cardinality(EVENT_CATEGORIES[i].keywords \cap TextKeywords(text))
             scores == {i \in DOMAIN EVENT_CATEGORIES : score(i) > 0}
         IN  IF scores = {} THEN "other"
             ELSE LET best == CHOOSE i \in scores :
                                 \A j \in scores : score(i) > score(j)
                                                   \/ (score(i) = score(j) /\ i <= j)
                  IN  EVENT_CATEGORIES[best].name

Pair(base, quote) == CHOOSE p \in DOMAIN PairLegs : PairLegs[p] = <<base, quote>>

major_bases == {"EUR", "GBP", "AUD", "NZD", "USD", "CAD", "CHF"}

jpy_cross_bases == {"EUR", "GBP", "AUD", "NZD", "CAD", "CHF"}

extract_currency_pairs(currencies) ==
    IF currencies = {} THEN {}
    ELSE (IF "USD" \in currencies
          THEN {Pair(base, "USD") : base \in (major_bases \ {"USD"}) \cap currencies}
          ELSE {})
         \cup {Pair("USD", currency) : currency \in (currencies \cap major_bases) \ {"USD"}}
         \cup (IF "JPY" \in currencies
               THEN {Pair(base, "JPY") : base \in jpy_cross_bases \cap currencies}
               ELSE {})

(***************************************************************************)
(* ImpactScorer                                                            *)
(***************************************************************************)
(* calculate_impact_score giving the central-bank bonus only when the
   currency bonus does not apply *)
calculate_impact_score_either(text, category, currencies, central_banks) ==
    LET base_score == IF category \in DOMAIN CATEGORY_WEIGHTS
                      THEN CATEGORY_WEIGHTS[category] ELSE 20
        high_impact_count == Cardinality(HIGH_IMPACT_KEYWORDS \cap TextKeywords(text))
        low_impact_count  == Cardinality(LOW_IMPACT_KEYWORDS \cap TextKeywords(text))
        score == base_score + high_impact_count * 10 - low_impact_count * 5
                 + (IF Cardinality(currencies) >= 3 THEN 10
                    ELSE IF Cardinality(central_banks) >= 2 THEN 15 ELSE 0)
    IN  Max(0, Min(100, score))

(* calculate_impact_score with the two keyword weights exchanged *)
calculate_impact_score_swapped(text, category, currencies, central_banks) ==
    LET base_score == IF category \in DOMAIN CATEGORY_WEIGHTS
                      THEN CATEGORY_WEIGHTS[category] ELSE 20
        high_impact_count == Cardinality(HIGH_IMPACT_KEYWORDS \cap TextKeywords(text))
        low_impact_count  == Cardinality(LOW_IMPACT_KEYWORDS \cap TextKeywords(text))
        score == base_score + high_impact_count * 5 - low_impact_count * 10
                 + (IF Cardinality(currencies) >= 3 THEN 10 ELSE 0)
                 + (IF Cardinality(central_banks) >= 2 THEN 15 ELSE 0)
    IN  Max(0, Min(100, score))

calculate_impact_score(text, category, currencies, central_banks) ==
    LET base_score == IF category \in DOMAIN CATEGORY_WEIGHTS
                      THEN CATEGORY_WEIGHTS[category] ELSE 20
        high_impact_count == Cardinality(HIGH_IMPACT_KEYWORDS \cap TextKeywords(text))
        low_impact_count  == Cardinality(LOW_IMPACT_KEYWORDS \cap TextKeywords(text))
        score == base_score + high_impact_count * 10 - low_impact_count * 5
                 + (IF Cardinality(currencies) >= 3 THEN 10 ELSE 0)
                 + (IF Cardinality(central_banks) >= 2 THEN 15 ELSE 0)
    IN  Max(0, Min(100, score))

(* the bank table written out inside calculate_pair_scores *)
PAIR_SCORE_BANKS ==
    << <<"FED", {"USD"}>>, <<"FRB", {"USD"}>>, <<"FOMC", {"USD"}>>,
       <<"ECB", {"EUR"}>>, <<"BOJ", {"JPY"}>>, <<"BOE", {"GBP"}>>,
       <<"RBA", {"AUD"}>>, <<"BOC", {"CAD"}>>, <<"SNB", {"CHF"}>>,
       <<"RBNZ", {"NZD"}>> >>

RECURSIVE BankBonus(_, _, _, _)
BankBonus(banks, central_banks, base, quote) ==
    IF banks = <<>> THEN 0
    ELSE LET bank == Head(banks)[1]
             bank_currencies == Head(banks)[2]
         IN  (IF bank \in central_banks
              THEN (IF base \in bank_currencies THEN 20 ELSE 0)
                   + (IF quote \in bank_currencies THEN 20 ELSE 0)
              ELSE 0)
             + BankBonus(Tail(banks), central_banks, base, quote)

calculate_pair_scores(text, pairs, currencies, central_banks) ==
    [pair \in pairs |->
        LET base  == PairLegs[pair][1]
            quote == PairLegs[pair][2]
            score == (IF pair \in TextPairs(text) THEN 50 ELSE 0)
                     + Min(TextCount(text, base) * 10, 30)
                     + Min(TextCount(text, quote) * 10, 30)
                     + BankBonus(PAIR_SCORE_BANKS, central_banks, base, quote)
        IN  Max(0, Min(100, score))]

(***************************************************************************)
(* NewsFilter.  nf is the filter's configuration.                          *)
(***************************************************************************)
excluded_currencies == {"TRY", "ZAR", "BRL", "RUB", "INR", "KRW", "MXN"}

(* is_breaking_news requiring a pair score above the threshold *)
is_breaking_news_above(nf, enriched) ==
    IF enriched.impact_score < nf.impact_threshold_breaking THEN FALSE
    ELSE \E pair \in DOMAIN enriched.pair_scores :
            /\ pair \in nf.pairs_allowlist
            /\ enriched.pair_scores[pair] > nf.pair_score_threshold

is_breaking_news(nf, enriched) ==
    IF enriched.impact_score < nf.impact_threshold_breaking THEN FALSE
    ELSE \E pair \in DOMAIN enriched.pair_scores :
            /\ pair \in nf.pairs_allowlist
            /\ enriched.pair_scores[pair] >= nf.pair_score_threshold

(* is_digest_worthy asking the allow-listed pair for the pair-score minimum *)
is_digest_worthy_scored(nf, enriched) ==
    IF enriched.impact_score < nf.impact_threshold_digest THEN FALSE
    ELSE \E pair \in DOMAIN enriched.pair_scores :
            /\ pair \in nf.pairs_allowlist
            /\ enriched.pair_scores[pair] >= nf.pair_score_threshold

is_digest_worthy(nf, enriched) ==
    IF enriched.impact_score < nf.impact_threshold_digest THEN FALSE
    ELSE \E pair \in DOMAIN enriched.pair_scores : pair \in nf.pairs_allowlist

(* should_exclude dropping an article as soon as one of its currencies is minor *)
should_exclude_any_minor(enriched) ==
    \/ enriched.currencies \cap excluded_currencies # {}
    \/ enriched.impact_score < 20

should_exclude(enriched) ==
    \/ /\ enriched.currencies # {}
       /\ enriched.currencies \ excluded_currencies = {}
    \/ enriched.impact_score < 20

(***************************************************************************)
(* Titles are character sequences; rapidfuzz's fuzz.ratio is the           *)
(* normalised indel similarity 100 * 2 * LCS / (len1 + len2), and 100 for  *)
(* two empty strings.                                                      *)
(***************************************************************************)
TitleEcbCut   == <<"E", "C", "B", " ", "c", "u", "t">>
TitleEcbCuts  == <<"e", "c", "b", " ", "c", "u", "t", "s">>
TitleEcbPut   == <<"e", "c", "b", " ", "p", "u", "t">>
TitleFedHold  == <<"F", "e", "d", " ", "h", "o", "l", "d">>
TitleEmpty    == <<>>

Titles == {TitleEcbCut, TitleEcbCuts, TitleEcbPut, TitleFedHold, TitleEmpty}

UpperToLower == ("E" :> "e") @@ ("C" :> "c") @@ ("B" :> "b") @@ ("F" :> "f")

lower(title) ==
    [i \in DOMAIN title |->
        IF title[i] \in DOMAIN UpperToLower THEN UpperToLower[title[i]] ELSE title[i]]

RECURSIVE LCS(_, _)
LCS(s, t) ==
    IF s = <<>> \/ t = <<>> THEN 0
    ELSE IF Head(s) = Head(t) THEN 1 + LCS(Tail(s), Tail(t))
    ELSE Max(LCS(Tail(s), t), LCS(s, Tail(t)))

(* fuzz.ratio(s, t) >= threshold, in exact integer arithmetic *)
RatioAtLeast(s, t, threshold) ==
    IF Len(s) + Len(t) = 0 THEN 100 >= threshold
    ELSE 200 * LCS(s, t) >= threshold * (Len(s) + Len(t))

(***************************************************************************)
(* DuplicateChecker.  dc = [cache, title_cache]; both map the md5 hash of  *)
(* a URL, cache to the time of the add, title_cache to the title.          *)
(***************************************************************************)
(* cache.ttl_hours of the configuration (CacheConfig, default 24), taken
   small enough for an entry to outlive it before the clock reaches MaxTime *)
ttl_hours == 2

similarity_threshold == 85

Urls == {"u1", "u2", "u3"}

get_url_hash(url) == <<"md5", url>>

(* the pairs of titles whose ratio reaches the threshold *)
Similar ==
    UNION {IF RatioAtLeast(lower(p[1]), lower(p[2]), similarity_threshold) THEN {p} ELSE {}
           : p \in Titles \X Titles}

(* clean_cache with the TTL taken as days *)
clean_cache_days(dc, clock) ==
    LET expired == {key \in DOMAIN dc.cache : clock - dc.cache[key] > ttl_hours * 24}
    IN  [cache       |-> Restrict(dc.cache, DOMAIN dc.cache \ expired),
         title_cache |-> Restrict(dc.title_cache, DOMAIN dc.title_cache \ expired)]

clean_cache(dc, clock) ==
    LET expired == {key \in DOMAIN dc.cache : clock - dc.cache[key] > ttl_hours}
    IN  [cache       |-> Restrict(dc.cache, DOMAIN dc.cache \ expired),
         title_cache |-> Restrict(dc.title_cache, DOMAIN dc.title_cache \ expired)]

is_duplicate_url(dc, url, clock) ==
    LET cleaned == clean_cache(dc, clock)
    IN  [dc |-> cleaned, result |-> get_url_hash(url) \in DOMAIN cleaned.cache]

(* is_similar_title comparing the titles without lower() *)
SimilarCased ==
    UNION {IF RatioAtLeast(p[1], p[2], similarity_threshold) THEN {p} ELSE {}
           : p \in Titles \X Titles}

is_similar_title_cased(dc, title) ==
    IF title = <<>> THEN FALSE
    ELSE \E key \in DOMAIN dc.title_cache : <<title, dc.title_cache[key]>> \in SimilarCased

is_similar_title(dc, title) ==
    IF title = <<>> THEN FALSE
    ELSE \E key \in DOMAIN dc.title_cache : <<title, dc.title_cache[key]>> \in Similar

add(dc, url, title, clock) ==
    LET url_hash == get_url_hash(url)
    IN  [cache       |-> [key \in DOMAIN dc.cache \cup {url_hash} |->
                            IF key = url_hash THEN clock ELSE dc.cache[key]],
         title_cache |-> [key \in DOMAIN dc.title_cache \cup {url_hash} |->
                            IF key = url_hash THEN title ELSE dc.title_cache[key]]]

is_duplicate(dc, url, title, clock) ==
    LET by_url == is_duplicate_url(dc, url, clock)
    IN  [dc |-> by_url.dc,
         result |-> by_url.result \/ is_similar_title(by_url.dc, title)]

(***************************************************************************)
(* Articles the feeds can carry.  ts is the article's timestamp with its    *)
(* time zone dropped, in hours on the scale of the clock; text is          *)
(* title + " " + body.                                                     *)
(***************************************************************************)
Articles ==
    { [url |-> "u1", title |-> TitleEcbCut,  ts |-> 0,
       text |-> <<"ECB", "surprise", "rate decision", "EURUSD", "EUR", "USD">>],
      [url |-> "u2", title |-> TitleEcbCuts, ts |-> -6,
       text |-> <<"cpi", "EUR", "USD">>],
      [url |-> "u3", title |-> TitleFedHold, ts |-> -14,
       text |-> <<"EUR", "USD", "expected">>] }

ArticleOf(url) == CHOOSE a \in Articles : a.url = url

Webhooks == {"beginner", "pro"}

(* config.yaml / .env settings the scheduler is constructed from: the
   defaults of ThresholdConfig, and a digest threshold lowered to 10 *)
DefaultConfig ==
    [pairs_allowlist |-> {"USDJPY", "EURUSD", "GBPUSD"},
     impact_threshold_breaking |-> 60, impact_threshold_digest |-> 40,
     pair_score_threshold |-> 50, webhooks |-> {"beginner", "pro"}]

LowDigestConfig == [DefaultConfig EXCEPT !.impact_threshold_digest = 10]

Configs == {DefaultConfig, LowDigestConfig}

VARIABLES
    cfg,              \* configuration of the NewsScheduler
    now,              \* datetime.now(), hours
    cache,            \* DuplicateChecker._cache
    title_cache,      \* DuplicateChecker._title_cache
    breaking_sent,    \* urls send_news has been called for
    digest_sent,      \* urls that have been put in a digest message
    last_run,         \* what the latest job run did
    last_op,          \* latest call made on a DuplicateChecker used on its own
    last_add,         \* url -> time and title of the latest add made for it
    flt,              \* a call of a pure function (NewsFilter, EntityExtractor,
                      \* ImpactScorer): function, arguments and return value
    jobs,             \* the two job threads when a check and a digest overlap
    fx,               \* FX/Phase1 fx_news: its clock, its database, what it posted
    lock              \* FX/Phase1 fx_news: the --lock file and the processes using it

sched_vars == <<cfg, breaking_sent, digest_sent, last_run>>

dedup_vars == <<last_op, last_add>>

fx_vars == <<fx, lock>>

vars == <<cfg, now, cache, title_cache, breaking_sent, digest_sent, last_run,
          last_op, last_add, flt, jobs, fx, lock>>

NoAdd == [at |-> -1, title |-> <<>>]

SchedIdle ==
    /\ breaking_sent = {}
    /\ digest_sent = {}
    /\ last_run = [job |-> "none", suppressed |-> {}, dispatched |-> <<>>, success |-> TRUE]

DedupIdle ==
    /\ last_op = [op |-> "none"]
    /\ last_add = [u \in Urls |-> NoAdd]

IdleJob ==
    [pc |-> "idle", todo |-> <<>>, iter_size |-> 0, expired |-> {},
     picked |-> <<>>, sent |-> {}, added |-> {}, error |-> "none"]

FilterIdle == flt = [fn |-> "none"]

JobsIdle == jobs = [t \in {"breaking", "digest"} |-> IdleJob]

(* fx_news is a separate program: not started *)
FxIdle == fx = [mode |-> "none"] /\ lock = [path |-> "none"]

(***************************************************************************)
(* RSSCollector.collect: the articles of the feeds, newest first           *)
(***************************************************************************)
RECURSIVE collect(_)
collect(feed) ==
    IF feed = {} THEN <<>>
    ELSE LET newest == CHOOSE a \in feed : \A b \in feed : a.ts >= b.ts
         IN  <<newest>> \o collect(feed \ {newest})

(***************************************************************************)
(* NewsScheduler._enrich_article                                           *)
(***************************************************************************)
enrich_article(article) ==
    LET text          == article.text
        currencies    == extract_currencies(text)
        central_banks == extract_central_banks(text)
        category      == categorize_event(text)
        pairs         == extract_currency_pairs(currencies)
    IN  [article       |-> article,
         currencies    |-> currencies,
         central_banks |-> central_banks,
         category      |-> category,
         impact_score  |-> calculate_impact_score(text, category, currencies, central_banks),
         pair_scores   |-> calculate_pair_scores(text, pairs, currencies, central_banks)]

EnrichedArticles == {enrich_article(a) : a \in Articles}

Enrichment(article) == CHOOSE e \in EnrichedArticles : e.article = article

(***************************************************************************)
(* DiscordDelivery.  down is the set of webhooks whose POST keeps failing  *)
(* during the run, so that _send_webhook raises after its retries.         *)
(***************************************************************************)
send_webhook(webhook, down) == webhook \notin down

send_news(webhooks, down) ==
    [success  |-> \A w \in webhooks : send_webhook(w, down),
     accepted |-> {w \in webhooks : send_webhook(w, down)}]

send_digest(webhooks, articles, down) ==
    [success  |-> \A w \in webhooks : send_webhook(w, down),
     accepted |-> {w \in webhooks : send_webhook(w, down)},
     items    |-> SubSeq(articles, 1, Min(10, Len(articles)))]

(***************************************************************************)
(* NewsScheduler.check_breaking_news                                       *)
(***************************************************************************)
RECURSIVE BreakingLoop(_, _, _, _, _)
BreakingLoop(articles, dc, sent, nf, clock) ==
    IF articles = <<>> THEN [dc |-> dc, sent |-> sent, suppressed |-> {}]
    ELSE LET article == Head(articles)
             dup     == is_duplicate(dc, article.url, article.title, clock)
         IN  IF dup.result
             THEN LET rest == BreakingLoop(Tail(articles), dup.dc, sent, nf, clock)
                  IN  [rest EXCEPT !.suppressed = @ \cup {article.url}]
             ELSE IF is_breaking_news(nf, Enrichment(article))
                  THEN BreakingLoop(Tail(articles),
                                    add(dup.dc, article.url, article.title, clock),
                                    Append(sent, article.url), nf, clock)
                  ELSE BreakingLoop(Tail(articles), dup.dc, sent, nf, clock)

check_breaking_news(feed, down) ==
    LET articles == collect(feed)
        run      == BreakingLoop(articles, [cache |-> cache, title_cache |-> title_cache],
                                 <<>>, cfg, now)
        sending  == send_news(cfg.webhooks, down)
        sent     == Range(run.sent)
    IN  /\ cache' = run.dc.cache
        /\ title_cache' = run.dc.title_cache
        /\ breaking_sent' = breaking_sent \cup sent
        /\ last_run' = [job |-> "breaking",
                        suppressed |-> run.suppressed, dispatched |-> run.sent,
                        success |-> sending.success]
        /\ UNCHANGED <<cfg, now, digest_sent, dedup_vars, flt, jobs, fx_vars>>

(***************************************************************************)
(* NewsScheduler._send_digest                                              *)
(***************************************************************************)
RECURSIVE DigestSelect(_, _, _, _, _)
DigestSelect(articles, dc, enriched_articles, nf, clock) ==
    IF articles = <<>>
    THEN [dc |-> dc, enriched_articles |-> enriched_articles, suppressed |-> {}]
    ELSE LET article == Head(articles)
             dup     == is_duplicate(dc, article.url, article.title, clock)
         IN  IF dup.result
             THEN LET rest == DigestSelect(Tail(articles), dup.dc, enriched_articles, nf, clock)
                  IN  [rest EXCEPT !.suppressed = @ \cup {article.url}]
             ELSE IF is_digest_worthy(nf, Enrichment(article))
                  THEN DigestSelect(Tail(articles), dup.dc,
                                    Append(enriched_articles, Enrichment(article)), nf, clock)
                  ELSE DigestSelect(Tail(articles), dup.dc, enriched_articles, nf, clock)

(* list.sort(key=impact_score, reverse=True): stable, equal scores keep their order *)
RECURSIVE InsertByImpact(_, _)
InsertByImpact(sorted, e) ==
    IF sorted = <<>> THEN <<e>>
    ELSE IF Head(sorted).impact_score >= e.impact_score
         THEN <<Head(sorted)>> \o InsertByImpact(Tail(sorted), e)
         ELSE <<e>> \o sorted

RECURSIVE SortByImpact(_)
SortByImpact(list) ==
    IF list = <<>> THEN <<>>
    ELSE InsertByImpact(SortByImpact(SubSeq(list, 1, Len(list) - 1)), list[Len(list)])

RECURSIVE MarkAll(_, _, _)
MarkAll(top_articles, dc, clock) ==
    IF top_articles = <<>> THEN dc
    ELSE MarkAll(Tail(top_articles),
                 add(dc, Head(top_articles).article.url, Head(top_articles).article.title, clock),
                 clock)

send_digest_job(job, hours_back, feed, down) ==
    LET articles        == collect(feed)
        cutoff          == now - hours_back
        recent_articles == SelectSeq(articles, LAMBDA a : a.ts > cutoff)
        selected        == DigestSelect(recent_articles,
                                        [cache |-> cache, title_cache |-> title_cache],
                                        <<>>, cfg, now)
        sorted          == SortByImpact(selected.enriched_articles)
        top_articles    == SubSeq(sorted, 1, Min(10, Len(sorted)))
        digest_urls     == [i \in DOMAIN top_articles |-> top_articles[i].article.url]
        marked          == MarkAll(top_articles, selected.dc, now)
        sending         == send_digest(cfg.webhooks, digest_urls, down)
        sent            == Range(sending.items)
    IN  IF top_articles = <<>>
        THEN /\ cache' = selected.dc.cache
             /\ title_cache' = selected.dc.title_cache
             /\ last_run' = [job |-> job,
                             suppressed |-> selected.suppressed, dispatched |-> <<>>,
                             success |-> TRUE]
             /\ UNCHANGED <<cfg, now, breaking_sent, digest_sent, dedup_vars, flt, jobs, fx_vars>>
        ELSE /\ cache' = marked.cache
             /\ title_cache' = marked.title_cache
             /\ digest_sent' = digest_sent \cup sent
             /\ last_run' = [job |-> job,
                             suppressed |-> selected.suppressed, dispatched |-> sending.items,
                             success |-> sending.success]
             /\ UNCHANGED <<cfg, now, breaking_sent, dedup_vars, flt, jobs, fx_vars>>

send_morning_digest(feed, down) == send_digest_job("morning", 12, feed, down)

send_night_digest(feed, down) == send_digest_job("night", 16, feed, down)

(***************************************************************************)
(* The scheduler: jobs run one at a time, the clock advances between runs  *)
(***************************************************************************)
Init ==
    /\ cfg \in Configs
    /\ now = 0
    /\ cache = <<>>
    /\ title_cache = <<>>
    /\ SchedIdle
    /\ DedupIdle
    /\ FilterIdle
    /\ JobsIdle
    /\ FxIdle

BreakingCheck == \E feed \in SUBSET Articles, down \in SUBSET Webhooks :
                    check_breaking_news(feed, down)

MorningDigest == \E feed \in SUBSET Articles, down \in SUBSET Webhooks :
                    send_morning_digest(feed, down)

NightDigest == \E feed \in SUBSET Articles, down \in SUBSET Webhooks :
                    send_night_digest(feed, down)

Tick ==
    /\ now < MaxTime
    /\ now' = now + 1
    /\ UNCHANGED <<cache, title_cache, sched_vars, dedup_vars, flt, jobs, fx_vars>>

Next == BreakingCheck \/ MorningDigest \/ NightDigest \/ Tick

Spec == Init /\ [][Next]_vars
(***************************************************************************)
(* Properties of the scheduler jobs                                        *)
(***************************************************************************)
InCache(url) == get_url_hash(url) \in DOMAIN cache

(* the step registers url afresh in the duplicate cache *)
Registered(url) ==
    /\ get_url_hash(url) \in DOMAIN cache'
    /\ \/ ~InCache(url)
       \/ cache'[get_url_hash(url)] # cache[get_url_hash(url)]

BreakingDispatch(url) ==
    /\ last_run'.job = "breaking"
    /\ url \in Range(last_run'.dispatched)
    /\ Registered(url)

DigestInclusion(url) ==
    /\ last_run'.job \in {"morning", "night"}
    /\ url \in Range(last_run'.dispatched)
    /\ Registered(url)

(* C1: over any sequence of job runs an article is dispatched at most once
   as breaking news and included at most once in a digest message: no step
   dispatches as breaking an article already dispatched as breaking, and no
   step puts in a digest an article already put in a digest. *)
Claim_C1 ==
    [][\A url \in Urls :
          /\ url \in breaking_sent => ~BreakingDispatch(url)
          /\ url \in digest_sent => ~DigestInclusion(url)]_vars

(* C2: after a breaking check whose send_news did not succeed, the articles
   it dispatched are not in the duplicate cache. *)
Claim_C2 ==
    (last_run.job = "breaking" /\ ~last_run.success)
        => \A url \in Range(last_run.dispatched) : ~InCache(url)

(* C3: the articles of a digest batch are marked as seen only when
   send_digest succeeded for the batch: after a digest run whose send_digest
   did not succeed, no article of the batch is in the duplicate cache. *)
Claim_C3 ==
    (last_run.job \in {"morning", "night"} /\ ~last_run.success)
        => \A url \in Range(last_run.dispatched) : ~InCache(url)

JobClass(job) == IF job \in {"morning", "night"} THEN "digest" ELSE job

(* C4: an article whose dispatch failed in the latest run is not suppressed
   as a duplicate by the next run of the same job (breaking check or
   digest) whose collector still returns it. *)
Claim_C4 ==
    [][\A url \in Urls :
          (/\ ~last_run.success
           /\ url \in Range(last_run.dispatched)
           /\ JobClass(last_run'.job) = JobClass(last_run.job))
              => url \notin last_run'.suppressed]_vars

(* C6: no article for which should_exclude holds is dispatched as breaking
   news or included in a digest, whatever the configured thresholds. *)
Claim_C6 ==
    \A url \in Range(last_run.dispatched) : ~should_exclude(Enrichment(ArticleOf(url)))

(***************************************************************************)
(* DuplicateChecker used on its own: any sequence of add and is_duplicate  *)
(* calls while the clock advances                                          *)
(***************************************************************************)
DcUrls == {"u1", "u2"}

DcTitles == {TitleEcbCut, TitleEcbCuts, TitleFedHold, TitleEmpty}

InitDedup ==
    /\ cfg = DefaultConfig
    /\ now = 0
    /\ cache = <<>>
    /\ title_cache = <<>>
    /\ SchedIdle
    /\ DedupIdle
    /\ FilterIdle
    /\ JobsIdle
    /\ FxIdle

DcAdd ==
    \E url \in DcUrls, title \in DcTitles :
        LET dc == add([cache |-> cache, title_cache |-> title_cache], url, title, now)
        IN  /\ cache' = dc.cache
            /\ title_cache' = dc.title_cache
            /\ last_op' = [op |-> "add", url |-> url, title |-> title, at |-> now]
            /\ last_add' = [last_add EXCEPT ![url] = [at |-> now, title |-> title]]
            /\ UNCHANGED <<now, sched_vars, flt, jobs, fx_vars>>

DcIsDuplicate ==
    \E url \in DcUrls, title \in DcTitles :
        LET call == is_duplicate([cache |-> cache, title_cache |-> title_cache],
                                 url, title, now)
        IN  /\ cache' = call.dc.cache
            /\ title_cache' = call.dc.title_cache
            /\ last_op' = [op |-> "is_duplicate", url |-> url, title |-> title,
                           at |-> now, result |-> call.result]
            /\ UNCHANGED <<now, last_add, sched_vars, flt, jobs, fx_vars>>

DcTick ==
    /\ now < MaxTime
    /\ now' = now + 1
    /\ UNCHANGED <<cache, title_cache, sched_vars, dedup_vars, flt, jobs, fx_vars>>

NextDedup == DcAdd \/ DcIsDuplicate \/ DcTick

SpecDedup == InitDedup /\ [][NextDedup]_vars

(***************************************************************************)
(* Properties of DuplicateChecker                                          *)
(***************************************************************************)
(* urls whose latest add is no older than the TTL *)
RetainedUrls == {u \in Urls : last_add[u] # NoAdd /\ now - last_add[u].at <= ttl_hours}

SimilarRetained(title) ==
    \E u \in RetainedUrls : <<title, last_add[u].title>> \in Similar

(* C7: is_duplicate(url, title) right after add(url, title) returns true;
   once more than ttl_hours have passed since the latest add of the url,
   and no retained entry has a similar title, it returns false. *)
Theorem_C7 ==
    (last_op.op = "is_duplicate" /\ last_op.at = now) =>
        LET added == last_add[last_op.url]
        IN  /\ (added = [at |-> now, title |-> last_op.title]) => last_op.result
            /\ (/\ added # NoAdd
                /\ added.title = last_op.title
                /\ now - added.at > ttl_hours
                /\ ~SimilarRetained(last_op.title)) => ~last_op.result

Witness_C7 ==
    /\ last_op.op = "is_duplicate"
    /\ last_op.at = now
    /\ last_add[last_op.url] # NoAdd
    /\ last_add[last_op.url].title = last_op.title
    /\ now - last_add[last_op.url].at > ttl_hours
    /\ ~last_op.result

(* C8: add(url, title) for a url already in the cache leaves the stored
   timestamp and the stored title unchanged. *)
Claim_C8 ==
    [][(/\ last_op'.op = "add"
        /\ get_url_hash(last_op'.url) \in DOMAIN cache)
          => (cache' = cache /\ title_cache' = title_cache)]_vars

(* the cache holds exactly the adds that are no older than the TTL *)
PurgedExactly ==
    /\ DOMAIN cache = {get_url_hash(u) : u \in RetainedUrls}
    /\ DOMAIN title_cache = DOMAIN cache
    /\ \A u \in RetainedUrls :
          /\ cache[get_url_hash(u)] = last_add[u].at
          /\ title_cache[get_url_hash(u)] = last_add[u].title

(* C9 as stated: is_duplicate purges the entries older than the TTL and
   returns true exactly when the url is retained or some retained title is
   similar to the candidate title. *)
Claim_C9 ==
    (last_op.op = "is_duplicate" /\ last_op.at = now) =>
        /\ PurgedExactly
        /\ last_op.result <=> (\/ last_op.url \in RetainedUrls
                               \/ SimilarRetained(last_op.title))

(* C9 amended: the title test applies to a non-empty candidate title only;
   a candidate with an empty title is a duplicate by its url alone. *)
Theorem_C9 ==
    (last_op.op = "is_duplicate" /\ last_op.at = now) =>
        /\ PurgedExactly
        /\ last_op.result <=> (\/ last_op.url \in RetainedUrls
                               \/ /\ last_op.title # <<>>
                                  /\ SimilarRetained(last_op.title))

(* a different url is judged a duplicate by its title while an entry older
   than the TTL has just been purged *)
Witness_C9 ==
    /\ last_op.op = "is_duplicate"
    /\ last_op.at = now
    /\ last_op.result
    /\ last_op.url \notin RetainedUrls
    /\ last_add[last_op.url] # NoAdd

(***************************************************************************)
(* NewsFilter applied to one Enriched value                                *)
(***************************************************************************)
FilterConfigs ==
    { [pairs_allowlist |-> {"USDJPY"},
       impact_threshold_breaking |-> 60, impact_threshold_digest |-> 40,
       pair_score_threshold |-> 50],
      [pairs_allowlist |-> {"USDJPY", "EURUSD", "GBPUSD"},
       impact_threshold_breaking |-> 60, impact_threshold_digest |-> 40,
       pair_score_threshold |-> 50] }

FilterImpacts == {39, 40, 50, 59, 60, 75}

FilterPairs == {"USDJPY", "EURUSD", "NZDCAD"}

FilterPairScores == {40, 50, 60, 80}

FilterInputs ==
    UNION { [impact_score : FilterImpacts, pair_scores : [pairs -> FilterPairScores]]
            : pairs \in SUBSET FilterPairs }

InitFilter ==
    /\ cfg = DefaultConfig
    /\ now = 0
    /\ cache = <<>>
    /\ title_cache = <<>>
    /\ SchedIdle
    /\ DedupIdle
    /\ JobsIdle
    /\ FxIdle
    /\ \E nf \in FilterConfigs, enriched \in FilterInputs :
          flt = [fn |-> "input", nf |-> nf, enriched |-> enriched]

ApplyIsBreakingNews ==
    /\ flt.fn = "input"
    /\ flt' = [fn |-> "is_breaking_news", nf |-> flt.nf, enriched |-> flt.enriched,
               value |-> is_breaking_news(flt.nf, flt.enriched)]
    /\ UNCHANGED <<now, cache, title_cache, sched_vars, dedup_vars, jobs, fx_vars>>

ApplyIsDigestWorthy ==
    /\ flt.fn = "input"
    /\ flt' = [fn |-> "is_digest_worthy", nf |-> flt.nf, enriched |-> flt.enriched,
               value |-> is_digest_worthy(flt.nf, flt.enriched)]
    /\ UNCHANGED <<now, cache, title_cache, sched_vars, dedup_vars, jobs, fx_vars>>

NextFilter == ApplyIsBreakingNews \/ ApplyIsDigestWorthy

SpecFilter == InitFilter /\ [][NextFilter]_vars

(* C10: is_breaking_news is false below the breaking threshold and otherwise
   true exactly when some allow-listed pair scores at or above the pair-score
   threshold; with allow-list [USDJPY], thresholds 60/50 and impact 75,
   {USDJPY: 60} is breaking and {USDJPY: 40} is not; pairs outside the
   allow-list never make an article breaking. *)
Theorem_C10 ==
    flt.fn = "is_breaking_news" =>
        LET nf     == flt.nf
            impact == flt.enriched.impact_score
            scores == flt.enriched.pair_scores
            scenario == /\ nf.pairs_allowlist = {"USDJPY"}
                        /\ nf.impact_threshold_breaking = 60
                        /\ nf.pair_score_threshold = 50
                        /\ impact = 75
        IN  /\ impact < nf.impact_threshold_breaking => ~flt.value
            /\ impact >= nf.impact_threshold_breaking =>
                  (flt.value <=> \E pair \in nf.pairs_allowlist :
                                    /\ pair \in DOMAIN scores
                                    /\ scores[pair] >= nf.pair_score_threshold)
            /\ (scenario /\ scores = ("USDJPY" :> 60)) => flt.value
            /\ (scenario /\ scores = ("USDJPY" :> 40)) => ~flt.value
            /\ (DOMAIN scores \cap nf.pairs_allowlist = {}) => ~flt.value

Witness_C10 ==
    /\ flt.fn = "is_breaking_news"
    /\ flt.nf.pairs_allowlist = {"USDJPY"}
    /\ flt.enriched.impact_score = 75
    /\ flt.enriched.pair_scores = ("USDJPY" :> 60)
    /\ flt.value

(* C11: is_digest_worthy is false below the digest threshold and otherwise
   true exactly when some key of pair_scores is in the allow-list, whatever
   the score of that pair. *)
Theorem_C11 ==
    flt.fn = "is_digest_worthy" =>
        LET nf     == flt.nf
            impact == flt.enriched.impact_score
            scores == flt.enriched.pair_scores
        IN  /\ impact < nf.impact_threshold_digest => ~flt.value
            /\ impact >= nf.impact_threshold_digest =>
                  (flt.value <=> DOMAIN scores \cap nf.pairs_allowlist # {})

(* an article at the digest threshold is digest-worthy through an
   allow-listed pair whose score is below the pair-score threshold *)
Witness_C11 ==
    /\ flt.fn = "is_digest_worthy"
    /\ flt.enriched.impact_score = flt.nf.impact_threshold_digest
    /\ flt.enriched.pair_scores = ("EURUSD" :> 40)
    /\ flt.value

(***************************************************************************)
(* A breaking check and a morning digest running in parallel on worker     *)
(* threads, sharing the scheduler's DuplicateChecker.  A thread can be     *)
(* preempted between two dictionary operations; a dictionary iterator      *)
(* raises RuntimeError when the dictionary changed size since the          *)
(* iteration began, del raises KeyError for a missing key, and either      *)
(* exception ends the job in its outer except clause.                      *)
(***************************************************************************)
Threads == {"breaking", "digest"}

(* states the scheduler is in when the two jobs start: a fresh scheduler,
   or one whose digest marked u2 three hours ago *)
ConcStartStates ==
    { [now |-> 0, cache |-> <<>>, title_cache |-> <<>>],
      [now |-> 3, cache |-> (get_url_hash("u2") :> 0),
       title_cache |-> (get_url_hash("u2") :> TitleEcbCuts)] }

InitConc ==
    /\ cfg = DefaultConfig
    /\ \E start \in ConcStartStates :
          /\ now = start.now
          /\ cache = start.cache
          /\ title_cache = start.title_cache
    /\ SchedIdle
    /\ DedupIdle
    /\ FilterIdle
    /\ JobsIdle
    /\ FxIdle

ConcUnchanged == UNCHANGED <<cfg, now, sched_vars, dedup_vars, flt, fx_vars>>

(* check_breaking_news 125 / _send_digest 185-192: collect the articles *)
ConcStart(t) ==
    /\ jobs[t].pc = "idle"
    /\ \E feed \in SUBSET Articles :
          LET articles == collect(feed)
              todo == IF t = "digest"
                      THEN SelectSeq(articles, LAMBDA a : a.ts > now - 12)
                      ELSE articles
          IN  jobs' = [jobs EXCEPT ![t].todo = todo,
                                   ![t].pc = IF todo = <<>> THEN "done" ELSE "check"]
    /\ UNCHANGED <<cache, title_cache>>
    /\ ConcUnchanged

(* _clean_cache 23: the iteration over _cache.items() begins *)
ConcScanBegin(t) ==
    /\ jobs[t].pc = "check"
    /\ jobs' = IF cache = <<>>
               THEN [jobs EXCEPT ![t].pc = "purge", ![t].expired = {}]
               ELSE [jobs EXCEPT ![t].pc = "iterate",
                                 ![t].iter_size = Cardinality(DOMAIN cache)]
    /\ UNCHANGED <<cache, title_cache>>
    /\ ConcUnchanged

(* _clean_cache 23-25: the iteration goes on after a possible preemption *)
ConcScanEnd(t) ==
    /\ jobs[t].pc = "iterate"
    /\ jobs' = IF Cardinality(DOMAIN cache) # jobs[t].iter_size
               THEN [jobs EXCEPT ![t].pc = "done", ![t].error = "RuntimeError"]
               ELSE [jobs EXCEPT ![t].pc = "purge",
                                 ![t].expired = {key \in DOMAIN cache :
                                                    now - cache[key] > ttl_hours}]
    /\ UNCHANGED <<cache, title_cache>>
    /\ ConcUnchanged

(* _clean_cache 27-30: delete the next expired key *)
ConcPurge(t) ==
    /\ jobs[t].pc = "purge"
    /\ IF jobs[t].expired = {}
       THEN /\ jobs' = [jobs EXCEPT ![t].pc = "lookup"]
            /\ UNCHANGED <<cache, title_cache>>
       ELSE \E key \in jobs[t].expired :
               IF key \notin DOMAIN cache
               THEN /\ jobs' = [jobs EXCEPT ![t].pc = "done", ![t].error = "KeyError"]
                    /\ UNCHANGED <<cache, title_cache>>
               ELSE /\ cache' = Restrict(cache, DOMAIN cache \ {key})
                    /\ title_cache' = Restrict(title_cache, DOMAIN title_cache \ {key})
                    /\ jobs' = [jobs EXCEPT ![t].expired = @ \ {key}]
    /\ ConcUnchanged

ConcDuplicate(article) ==
    \/ get_url_hash(article.url) \in DOMAIN cache
    \/ is_similar_title([cache |-> cache, title_cache |-> title_cache], article.title)

AfterArticle(t, todo) ==
    IF todo # <<>> THEN "check" ELSE IF t = "breaking" THEN "done" ELSE "sort"

(* is_duplicate_url 39-45, is_similar_title, check_breaking_news 130-139 *)
ConcLookupBreaking ==
    LET job == jobs["breaking"]
        article == Head(job.todo)
    IN  /\ job.pc = "lookup"
        /\ jobs' = IF ~ConcDuplicate(article) /\ is_breaking_news(cfg, Enrichment(article))
                   THEN [jobs EXCEPT !["breaking"].pc = "send"]
                   ELSE [jobs EXCEPT !["breaking"].todo = Tail(job.todo),
                                     !["breaking"].pc = AfterArticle("breaking", Tail(job.todo))]
        /\ UNCHANGED <<cache, title_cache>>
        /\ ConcUnchanged

(* check_breaking_news 154-163 *)
ConcSendNews ==
    LET job == jobs["breaking"]
    IN  /\ job.pc = "send"
        /\ jobs' = [jobs EXCEPT !["breaking"].sent = @ \cup {Head(job.todo).url},
                                !["breaking"].pc = "add"]
        /\ UNCHANGED <<cache, title_cache>>
        /\ ConcUnchanged

(* check_breaking_news 166 *)
ConcAddBreaking ==
    LET job == jobs["breaking"]
        article == Head(job.todo)
        dc == add([cache |-> cache, title_cache |-> title_cache],
                  article.url, article.title, now)
    IN  /\ job.pc = "add"
        /\ cache' = dc.cache
        /\ title_cache' = dc.title_cache
        /\ jobs' = [jobs EXCEPT !["breaking"].added = @ \cup {article.url},
                                !["breaking"].todo = Tail(job.todo),
                                !["breaking"].pc = AfterArticle("breaking", Tail(job.todo))]
        /\ ConcUnchanged

(* is_duplicate_url 39-45, is_similar_title, _send_digest 197-202 *)
ConcLookupDigest ==
    LET job == jobs["digest"]
        article == Head(job.todo)
    IN  /\ job.pc = "lookup"
        /\ jobs' = [jobs EXCEPT
                      !["digest"].picked =
                          IF ~ConcDuplicate(article) /\ is_digest_worthy(cfg, Enrichment(article))
                          THEN Append(@, Enrichment(article)) ELSE @,
                      !["digest"].todo = Tail(job.todo),
                      !["digest"].pc = AfterArticle("digest", Tail(job.todo))]
        /\ UNCHANGED <<cache, title_cache>>
        /\ ConcUnchanged

(* _send_digest 205-212 *)
ConcSortDigest ==
    LET job == jobs["digest"]
        sorted == SortByImpact(job.picked)
        top_articles == SubSeq(sorted, 1, Min(10, Len(sorted)))
    IN  /\ job.pc = "sort"
        /\ jobs' = [jobs EXCEPT !["digest"].picked = top_articles,
                                !["digest"].todo = top_articles,
                                !["digest"].pc = IF top_articles = <<>> THEN "done" ELSE "mark"]
        /\ UNCHANGED <<cache, title_cache>>
        /\ ConcUnchanged

(* _send_digest 216-237: mark the next article of the batch *)
ConcMarkDigest ==
    LET job == jobs["digest"]
        article == Head(job.todo).article
        dc == add([cache |-> cache, title_cache |-> title_cache],
                  article.url, article.title, now)
    IN  /\ job.pc = "mark"
        /\ cache' = dc.cache
        /\ title_cache' = dc.title_cache
        /\ jobs' = [jobs EXCEPT !["digest"].added = @ \cup {article.url},
                                !["digest"].todo = Tail(job.todo),
                                !["digest"].pc = IF Tail(job.todo) = <<>> THEN "send" ELSE "mark"]
        /\ ConcUnchanged

(* _send_digest 240-244 *)
ConcSendDigest ==
    LET job == jobs["digest"]
    IN  /\ job.pc = "send"
        /\ jobs' = [jobs EXCEPT !["digest"].sent = {e.article.url : e \in Range(job.picked)},
                                !["digest"].pc = "done"]
        /\ UNCHANGED <<cache, title_cache>>
        /\ ConcUnchanged

NextConc ==
    \/ \E t \in Threads : ConcStart(t)
    \/ \E t \in Threads : ConcScanBegin(t)
    \/ \E t \in Threads : ConcScanEnd(t)
    \/ \E t \in Threads : ConcPurge(t)
    \/ ConcLookupBreaking
    \/ ConcSendNews
    \/ ConcAddBreaking
    \/ ConcLookupDigest
    \/ ConcSortDigest
    \/ ConcMarkDigest
    \/ ConcSendDigest

SpecConc == InitConc /\ [][NextConc]_vars

(* C5: every interleaving of the two jobs' is_duplicate and add steps
   behaves like a serial order of whole operations: no purge finds the cache
   changed under its iteration or under its deletions, no entry added during
   the runs is lost, and no article is dispatched by both jobs. *)
Claim_C5 ==
    /\ \A t \in Threads : jobs[t].error = "none"
    /\ \A t \in Threads : \A url \in jobs[t].added : InCache(url)
    /\ jobs["breaking"].sent \cap jobs["digest"].sent = {}

(***************************************************************************)
(* The pure functions of NewsFilter, EntityExtractor and ImpactScorer,     *)
(* each applied once to an input drawn from a bounded set.  The scheduler  *)
(* and the duplicate cache stay as constructed.                            *)
(***************************************************************************)
PureInit ==
    /\ cfg = DefaultConfig
    /\ now = 0
    /\ cache = <<>>
    /\ title_cache = <<>>
    /\ SchedIdle
    /\ DedupIdle
    /\ JobsIdle
    /\ FxIdle

PureUnchanged == UNCHANGED <<now, cache, title_cache, sched_vars, dedup_vars, jobs, fx_vars>>

(***************************************************************************)
(* NewsFilter.should_exclude                                               *)
(***************************************************************************)
ExcludeCurrencies == {"USD", "EUR", "TRY", "ZAR"}

ExcludeImpacts == {0, 19, 20, 21, 50, 100}

InitExclude ==
    /\ PureInit
    /\ \E currencies \in SUBSET ExcludeCurrencies, impact_score \in ExcludeImpacts :
          flt = [fn |-> "input",
                 enriched |-> [currencies |-> currencies, impact_score |-> impact_score]]

ApplyShouldExclude ==
    /\ flt.fn = "input"
    /\ flt' = [fn |-> "should_exclude", enriched |-> flt.enriched,
               value |-> should_exclude(flt.enriched)]
    /\ PureUnchanged

NextExclude == ApplyShouldExclude

SpecExclude == InitExclude /\ [][NextExclude]_vars

(* C12: should_exclude is true when at least one currency was detected and
   all detected currencies are minor, whatever the impact score, true when
   the impact score is below 20, whatever the currencies, and false in every
   other case, also when no currency was detected and the score is at least
   20. *)
Theorem_C12 ==
    flt.fn = "should_exclude" =>
        LET currencies == flt.enriched.currencies
            impact     == flt.enriched.impact_score
            only_minor == currencies # {} /\ currencies \subseteq excluded_currencies
        IN  /\ only_minor => flt.value
            /\ impact < 20 => flt.value
            /\ (~only_minor /\ impact >= 20) => ~flt.value
            /\ (currencies = {} /\ impact >= 20) => ~flt.value

(* only minor currencies and the highest impact score: excluded *)
Witness_C12 ==
    /\ flt.fn = "should_exclude"
    /\ flt.enriched.currencies = {"TRY", "ZAR"}
    /\ flt.enriched.impact_score = 100
    /\ flt.value

(***************************************************************************)
(* NewsFilter.filter_for_digest                                            *)
(***************************************************************************)
MaxList == 3

MaxLimit == 2

(* list[:limit] for a limit that is a number of items *)
Slice(list, limit) == SubSeq(list, 1, Min(limit, Len(list)))

(* filter_for_digest cutting the list to the limit before sorting it *)
filter_for_digest_cut_first(nf, articles, limit) ==
    LET digest == SelectSeq(articles,
                            LAMBDA e : ~should_exclude(e) /\ is_digest_worthy(nf, e))
    IN  SortByImpact(Slice(digest, limit))

filter_for_digest(nf, articles, limit) ==
    LET digest == SelectSeq(articles,
                            LAMBDA e : ~should_exclude(e) /\ is_digest_worthy(nf, e))
    IN  Slice(SortByImpact(digest), limit)

(* Enriched values: three that qualify for the digest, one with only a
   minor currency, one below the digest threshold *)
DigestPool ==
    { [currencies |-> {"USD"}, impact_score |-> 45, pair_scores |-> ("USDJPY" :> 50)],
      [currencies |-> {"EUR", "USD"}, impact_score |-> 70, pair_scores |-> ("EURUSD" :> 40)],
      [currencies |-> {"USD"}, impact_score |-> 59, pair_scores |-> ("USDJPY" :> 50)],
      [currencies |-> {"TRY"}, impact_score |-> 80, pair_scores |-> ("USDJPY" :> 50)],
      [currencies |-> {"USD"}, impact_score |-> 35, pair_scores |-> ("USDJPY" :> 50)] }

DigestLists == UNION {[1..n -> DigestPool] : n \in 0..MaxList}

InitDigestFilter ==
    /\ PureInit
    /\ \E articles \in DigestLists, limit \in 0..MaxLimit :
          flt = [fn |-> "input", articles |-> articles, limit |-> limit]

ApplyFilterForDigest ==
    /\ flt.fn = "input"
    /\ flt' = [fn |-> "filter_for_digest", articles |-> flt.articles, limit |-> flt.limit,
               value |-> filter_for_digest(cfg, flt.articles, flt.limit)]
    /\ PureUnchanged

NextDigestFilter == ApplyFilterForDigest

SpecDigestFilter == InitDigestFilter /\ [][NextDigestFilter]_vars

Qualifies(e) == ~should_exclude(e) /\ is_digest_worthy(cfg, e)

Count(list, e) == Cardinality({i \in DOMAIN list : list[i] = e})

(* C13: filter_for_digest(list, limit) returns at most limit items, sorted
   by non-increasing impact_score, each an item of the list that is not
   excluded and is digest-worthy, and no qualifying item left out has a
   strictly higher impact_score than an item that was returned. *)
Theorem_C13 ==
    flt.fn = "filter_for_digest" =>
        LET articles == flt.articles
            digest   == flt.value
        IN  /\ Len(digest) <= flt.limit
            /\ \A i \in 1..(Len(digest) - 1) :
                  digest[i].impact_score >= digest[i + 1].impact_score
            /\ \A e \in Range(digest) :
                  Qualifies(e) /\ Count(digest, e) <= Count(articles, e)
            /\ \A e \in Range(articles) :
                  (Qualifies(e) /\ Count(digest, e) < Count(articles, e))
                      => \A r \in Range(digest) : e.impact_score <= r.impact_score

(* the limit cuts a qualifying item off and the list held an item that does
   not qualify *)
Witness_C13 ==
    /\ flt.fn = "filter_for_digest"
    /\ Len(flt.value) = flt.limit
    /\ flt.limit > 0
    /\ \E e \in Range(flt.articles) : Qualifies(e) /\ e \notin Range(flt.value)
    /\ \E e \in Range(flt.articles) : ~Qualifies(e)

(***************************************************************************)
(* EntityExtractor.extract_currency_pairs.  The list of currencies is      *)
(* taken as the set of its items and the sorted, duplicate-free result as  *)
(* the set of its pairs.                                                   *)
(***************************************************************************)
PairCurrencies == {"USD", "JPY", "EUR", "GBP", "CAD", "CHF", "TRY"}

InitPairs ==
    /\ PureInit
    /\ \E currencies \in SUBSET PairCurrencies :
          flt = [fn |-> "input", currencies |-> currencies]

ApplyExtractCurrencyPairs ==
    /\ flt.fn = "input"
    /\ flt' = [fn |-> "extract_currency_pairs", currencies |-> flt.currencies,
               value |-> extract_currency_pairs(flt.currencies)]
    /\ PureUnchanged

NextPairs == ApplyExtractCurrencyPairs

SpecPairs == InitPairs /\ [][NextPairs]_vars

(* C14: for every currency list holding both USD and JPY the result holds
   USDJPY, and for [USD, JPY, EUR] it holds USDJPY, EURUSD and EURJPY. *)
Claim_C14 ==
    flt.fn = "extract_currency_pairs" =>
        /\ {"USD", "JPY"} \subseteq flt.currencies => "USDJPY" \in flt.value
        /\ flt.currencies = {"USD", "JPY", "EUR"}
              => {"USDJPY", "EURUSD", "EURJPY"} \subseteq flt.value

(* C15: in the result every pair of USD with one of EUR, GBP, AUD, NZD, CAD
   and CHF has USD as its quote currency and both its currencies are in the
   input; every pair with JPY has JPY as its quote currency and a major
   currency of the input as its base. *)
Claim_C15 ==
    flt.fn = "extract_currency_pairs" =>
        \A pair \in flt.value :
            LET base  == PairLegs[pair][1]
                quote == PairLegs[pair][2]
            IN  /\ ("USD" \in {base, quote} /\ {base, quote} \cap jpy_cross_bases # {})
                      => /\ quote = "USD"
                         /\ {base, quote} \subseteq flt.currencies
                /\ "JPY" \in {base, quote}
                      => /\ quote = "JPY"
                         /\ base \in major_bases
                         /\ {base, quote} \subseteq flt.currencies

(***************************************************************************)
(* EntityExtractor.extract_central_banks and categorize_event, applied to  *)
(* texts of at most MaxTextLen words                                       *)
(***************************************************************************)
MaxTextLen == 3

Texts(words) == UNION {[1..n -> words] : n \in 0..MaxTextLen}

BankWords == {"ECB", "Fed", "federal", "PBOC", "ja:nichigin", "USD"}

InitBanks ==
    /\ PureInit
    /\ \E text \in Texts(BankWords) : flt = [fn |-> "input", text |-> text]

ApplyExtractCentralBanks ==
    /\ flt.fn = "input"
    /\ flt' = [fn |-> "extract_central_banks", text |-> flt.text,
               value |-> extract_central_banks(flt.text)]
    /\ PureUnchanged

NextBanks == ApplyExtractCentralBanks

SpecBanks == InitBanks /\ [][NextBanks]_vars

(* the words that are, in upper case, an alias of CENTRAL_BANKS *)
AliasOfWord ==
    ("ECB" :> "ECB") @@ ("Fed" :> "FED") @@ ("BOJ" :> "BOJ") @@ ("PBOC" :> "PBOC") @@
    ("ja:nichigin" :> "ja:nichigin")

WholeWordBanks(text) ==
    {AliasOfWord[text[i]] : i \in {j \in DOMAIN text : text[j] \in DOMAIN AliasOfWord}}

(* C16: extract_central_banks reports a bank only when one of its aliases
   occurs in the text as a whole word, and nothing for the empty text. *)
Claim_C16 ==
    flt.fn = "extract_central_banks" =>
        /\ flt.value \subseteq WholeWordBanks(flt.text)
        /\ flt.text = <<>> => flt.value = {}

CategoryWords == {"rate decision", "cpi", "inflation", "expected", "USD"}

InitCategory ==
    /\ PureInit
    /\ \E text \in Texts(CategoryWords) : flt = [fn |-> "input", text |-> text]

ApplyCategorizeEvent ==
    /\ flt.fn = "input"
    /\ flt' = [fn |-> "categorize_event", text |-> flt.text,
               value |-> categorize_event(flt.text)]
    /\ PureUnchanged

NextCategory == ApplyCategorizeEvent

SpecCategory == InitCategory /\ [][NextCategory]_vars

(* number of keywords of the i-th declared category found in the text *)
KeywordCount(i, text) ==
    Cardinality({k \in EVENT_CATEGORIES[i].keywords :
                    \E n \in DOMAIN text : k \in WordFacts[text[n]].keywords})

(* C17: categorize_event returns the category with the highest non-zero
   number of keywords in the text, the first declared one of those that tie
   for it, and other when no keyword matches or the text is empty. *)
Theorem_C17 ==
    flt.fn = "categorize_event" =>
        LET text == flt.text
            declared == DOMAIN EVENT_CATEGORIES
        IN  IF \A i \in declared : KeywordCount(i, text) = 0
            THEN flt.value = "other"
            ELSE \E i \in declared :
                    /\ flt.value = EVENT_CATEGORIES[i].name
                    /\ KeywordCount(i, text) > 0
                    /\ \A j \in declared : KeywordCount(j, text) <= KeywordCount(i, text)
                    /\ \A j \in declared : j < i => KeywordCount(j, text) < KeywordCount(i, text)

(* inflation and policy_rate tie with one keyword each, the inflation
   keyword coming first in the text: policy_rate is declared first *)
Witness_C17 ==
    /\ flt.fn = "categorize_event"
    /\ flt.text = <<"cpi", "rate decision">>
    /\ flt.value = "policy_rate"

(***************************************************************************)
(* ImpactScorer.calculate_impact_score: applied to a text, then to the     *)
(* same text with one more keyword                                         *)
(***************************************************************************)
ScoreWordList ==
    <<"surprise", "unexpected", "expected", "stable", "forecast", "steady", "minor">>

(* the words of list at the positions of S, in the order of the list *)
RECURSIVE Pick(_, _, _)
Pick(list, S, i) ==
    IF i > Len(list) THEN <<>>
    ELSE (IF i \in S THEN <<list[i]>> ELSE <<>>) \o Pick(list, S, i + 1)

ScoreTexts == {Pick(ScoreWordList, S, 1) : S \in SUBSET DOMAIN ScoreWordList}

ScoreCategories == {"policy_rate", "trade", "other", "unknown"}

ScoreCurrencies == {{}, {"EUR", "USD"}, {"EUR", "USD", "JPY"}}

ScoreBanks == {{}, {"ECB"}, {"ECB", "FED"}}

InitScore ==
    /\ PureInit
    /\ \E text \in ScoreTexts, category \in ScoreCategories,
          currencies \in ScoreCurrencies, central_banks \in ScoreBanks :
          flt = [fn |-> "input", text |-> text, category |-> category,
                 currencies |-> currencies, central_banks |-> central_banks]

ApplyCalculateImpactScore ==
    /\ flt.fn = "input"
    /\ flt' = [fn |-> "calculate_impact_score", text |-> flt.text,
               category |-> flt.category, currencies |-> flt.currencies,
               central_banks |-> flt.central_banks,
               value |-> calculate_impact_score(flt.text, flt.category,
                                                flt.currencies, flt.central_banks)]
    /\ PureUnchanged

(* the same call on the text with one keyword added *)
AddKeyword ==
    /\ flt.fn = "calculate_impact_score"
    /\ \E keyword \in Range(ScoreWordList) :
          flt' = [fn |-> "add_keyword", keyword |-> keyword,
                  text |-> Append(flt.text, keyword),
                  category |-> flt.category, currencies |-> flt.currencies,
                  central_banks |-> flt.central_banks,
                  before |-> flt.value,
                  value |-> calculate_impact_score(Append(flt.text, keyword), flt.category,
                                                   flt.currencies, flt.central_banks)]
    /\ PureUnchanged

NextScore == ApplyCalculateImpactScore \/ AddKeyword

SpecScore == InitScore /\ [][NextScore]_vars

(* the keywords of a list that occur in the text *)
KeywordsPresent(keywords, text) ==
    {k \in keywords : \E n \in DOMAIN text : k \in WordFacts[text[n]].keywords}

(* C18: calculate_impact_score lies in 0..100 and is the clamped sum of the
   category's base weight (that of other, 20, for an unknown category), 10
   per high-impact keyword present, -5 per low-impact keyword present, 10
   for three or more currencies and 15 for two or more central banks, both
   bonuses applying together. *)
Theorem_C18 ==
    flt.fn = "calculate_impact_score" =>
        LET base == IF flt.category \in DOMAIN CATEGORY_WEIGHTS
                    THEN CATEGORY_WEIGHTS[flt.category] ELSE CATEGORY_WEIGHTS["other"]
            high == Cardinality(KeywordsPresent(HIGH_IMPACT_KEYWORDS, flt.text))
            low  == Cardinality(KeywordsPresent(LOW_IMPACT_KEYWORDS, flt.text))
            currency_bonus == IF Cardinality(flt.currencies) >= 3 THEN 10 ELSE 0
            bank_bonus     == IF Cardinality(flt.central_banks) >= 2 THEN 15 ELSE 0
            sum == base + 10 * high - 5 * low + currency_bonus + bank_bonus
        IN  /\ flt.value \in 0..100
            /\ flt.value = (IF sum < 0 THEN 0 ELSE IF sum > 100 THEN 100 ELSE sum)
            /\ CATEGORY_WEIGHTS["other"] = 20

(* three currencies and two central banks: both bonuses are in the score *)
Witness_C18 ==
    /\ flt.fn = "calculate_impact_score"
    /\ Cardinality(flt.currencies) >= 3
    /\ Cardinality(flt.central_banks) >= 2
    /\ flt.category = "unknown"
    /\ flt.text = <<>>
    /\ flt.value = 45

(* C19: with category, currencies and central banks fixed, adding a
   high-impact keyword to the text never decreases the score and adding a
   low-impact keyword never increases it. *)
Theorem_C19 ==
    flt.fn = "add_keyword" =>
        /\ flt.keyword \in HIGH_IMPACT_KEYWORDS => flt.value >= flt.before
        /\ flt.keyword \in LOW_IMPACT_KEYWORDS => flt.value <= flt.before

(* unexpected, which contains the low-impact keyword expected, is added to
   a text without either, and the score is neither at 0 nor at 100 *)
Witness_C19 ==
    /\ flt.fn = "add_keyword"
    /\ flt.keyword = "unexpected"
    /\ KeywordsPresent({"expected", "unexpected"}, SubSeq(flt.text, 1, Len(flt.text) - 1)) = {}
    /\ flt.value = flt.before + 5

(***************************************************************************)
(* ImpactScorer.calculate_pair_scores                                      *)
(***************************************************************************)
PairScoreWordList == <<"EURUSD", "USD", "JPY">>

PairScoreTexts == {Pick(PairScoreWordList, S, 1) : S \in SUBSET DOMAIN PairScoreWordList}

PairScorePairs == {"EURUSD", "EURJPY", "USDJPY"}

PairScoreBanks == {"FED", "FRB", "ECB", "BOJ", "ja:nichigin"}

InitPairScores ==
    /\ PureInit
    /\ \E text \in PairScoreTexts, pairs \in SUBSET PairScorePairs,
          central_banks \in SUBSET PairScoreBanks :
          flt = [fn |-> "input", text |-> text, pairs |-> pairs,
                 central_banks |-> central_banks]

ApplyCalculatePairScores ==
    /\ flt.fn = "input"
    /\ flt' = [fn |-> "calculate_pair_scores", text |-> flt.text, pairs |-> flt.pairs,
               central_banks |-> flt.central_banks,
               value |-> calculate_pair_scores(flt.text, flt.pairs,
                                               extract_currencies(flt.text),
                                               flt.central_banks)]
    /\ PureUnchanged

NextPairScores == ApplyCalculatePairScores

SpecPairScores == InitPairScores /\ [][NextPairScores]_vars

(* some detected central bank governs the currency, by CENTRAL_BANKS *)
Governed(currency, central_banks) ==
    \E bank \in central_banks \cap DOMAIN CENTRAL_BANKS : currency \in CENTRAL_BANKS[bank]

(* C20: in calculate_pair_scores the central-bank bonus of a leg is 20 when
   at least one detected central bank governs the leg's currency, whatever
   the number of such banks and whichever alias of CENTRAL_BANKS was
   detected, and 0 otherwise; every pair's score is clamped to 0..100. *)
Claim_C20 ==
    flt.fn = "calculate_pair_scores" =>
        \A pair \in DOMAIN flt.value :
            LET base  == PairLegs[pair][1]
                quote == PairLegs[pair][2]
                bonus(currency) == IF Governed(currency, flt.central_banks) THEN 20 ELSE 0
                sum == (IF pair \in TextPairs(flt.text) THEN 50 ELSE 0)
                       + Min(TextCount(flt.text, base) * 10, 30)
                       + Min(TextCount(flt.text, quote) * 10, 30)
                       + bonus(base) + bonus(quote)
            IN  /\ flt.value[pair] \in 0..100
                /\ flt.value[pair] = Min(100, sum)

(***************************************************************************)
(* One job run of the NewsScheduler with its faults: articles whose        *)
(* enrichment raises, articles whose LLM calls raise, webhooks that are    *)
(* down, the feed field the timestamps are parsed from, and the offset of  *)
(* the process's local time zone from UTC.                                 *)
(***************************************************************************)
(* feed entries: published is the instant of publication in hours on the
   scale of the clock (UTC); text is title + " " + body *)
FeedEntries ==
    { [url |-> "u1", title |-> TitleEcbCut,  published |-> -3,
       text |-> <<"ECB", "surprise", "rate decision", "EURUSD", "EUR", "USD">>],
      [url |-> "u2", title |-> TitleFedHold, published |-> -13,
       text |-> <<"Fed", "surprise", "rate decision", "EURUSD", "EUR", "USD">>],
      [url |-> "u3", title |-> TitleEcbCuts, published |-> -1,
       text |-> <<"cpi", "EUR", "USD">>] }

(* hours the process's local time zone is ahead of UTC: UTC, Asia/Tokyo,
   America/New_York *)
UtcOffsets == {0, 9, -5}

TimestampFields == {"published_parsed", "published"}

(* RSSCollector._parse_timestamp: a parsed struct goes through time.mktime,
   which reads the UTC struct as local time; a string goes through dateutil
   and keeps its instant.  The result is the instant in UTC. *)
parse_timestamp(published, field, utc_offset) ==
    IF field = "published_parsed" THEN published - utc_offset ELSE published

parse_entry(entry, field, utc_offset) ==
    [url |-> entry.url, title |-> entry.title, text |-> entry.text,
     ts |-> parse_timestamp(entry.published, field, utc_offset)]

EntryOf(url) == CHOOSE e \in FeedEntries : e.url = url

EnrichedEntries ==
    {[url |-> e.url, enriched |-> enrich_article([url |-> e.url, title |-> e.title, text |-> e.text])]
     : e \in FeedEntries}

EnrichedEntry(url) == (CHOOSE e \in EnrichedEntries : e.url = url).enriched

None == [none |-> TRUE]

(* _enrich_article: every exception is logged and None is returned; and
   the same without its try/except, where the failure propagates *)
try_enrich_article_unguarded(article, enrich_fail) ==
    [raised   |-> article.url \in enrich_fail,
     enriched |-> IF article.url \in enrich_fail THEN None
                  ELSE [EnrichedEntry(article.url) EXCEPT !.article = article]]

try_enrich_article(article, enrich_fail) ==
    [raised   |-> FALSE,
     enriched |-> IF article.url \in enrich_fail THEN None
                  ELSE [EnrichedEntry(article.url) EXCEPT !.article = article]]

(* _generate_summary_and_guide: the LLM's texts, or on any exception the
   fallback template filled with the article's title; and the same without
   its try/except *)
generate_summary_and_guide_unguarded(enriched, llm_fail) ==
    [raised  |-> enriched.article.url \in llm_fail,
     summary |-> <<"llm", enriched.article.url>>]

generate_summary_and_guide(enriched, llm_fail) ==
    [raised  |-> FALSE,
     summary |-> IF enriched.article.url \in llm_fail
                 THEN <<"ja:youyaku seisei ni shippai", enriched.article.title>>
                 ELSE <<"llm", enriched.article.url>>]

FallbackSummary(title) == <<"ja:youyaku seisei ni shippai", title>>

(* the loop of check_breaking_news; raised is an exception reaching the
   job's own except clause, which ends the loop *)
RECURSIVE RunBreakingLoop(_, _, _, _, _, _, _)
RunBreakingLoop(articles, dc, sent, nf, clock, enrich_fail, llm_fail) ==
    IF articles = <<>> THEN [dc |-> dc, sent |-> sent, raised |-> FALSE]
    ELSE LET article == Head(articles)
             dup     == is_duplicate(dc, article.url, article.title, clock)
             e       == try_enrich_article(article, enrich_fail)
         IN  IF dup.result
             THEN RunBreakingLoop(Tail(articles), dup.dc, sent, nf, clock, enrich_fail, llm_fail)
             ELSE IF e.raised THEN [dc |-> dup.dc, sent |-> sent, raised |-> TRUE]
             ELSE IF e.enriched = None
             THEN RunBreakingLoop(Tail(articles), dup.dc, sent, nf, clock, enrich_fail, llm_fail)
             ELSE IF is_breaking_news(nf, e.enriched)
             THEN LET g == generate_summary_and_guide(e.enriched, llm_fail)
                  IN  IF g.raised THEN [dc |-> dup.dc, sent |-> sent, raised |-> TRUE]
                      ELSE RunBreakingLoop(Tail(articles),
                                           add(dup.dc, article.url, article.title, clock),
                                           Append(sent, [url |-> article.url, ts |-> article.ts,
                                                         impact_score |-> e.enriched.impact_score,
                                                         summary |-> g.summary]),
                                           nf, clock, enrich_fail, llm_fail)
             ELSE RunBreakingLoop(Tail(articles), dup.dc, sent, nf, clock, enrich_fail, llm_fail)

(* check_breaking_news as a function of what it reads *)
breaking_run(dc, nf, clock, feed, field, utc_offset, enrich_fail, llm_fail) ==
    LET articles == collect({parse_entry(e, field, utc_offset) : e \in feed})
        run      == RunBreakingLoop(articles, dc, <<>>, nf, clock, enrich_fail, llm_fail)
    IN  [dc |-> run.dc, considered |-> {a.url : a \in Range(articles)},
         dispatched |-> run.sent, raised |-> run.raised]

(* the enrich-and-filter loop of _send_digest *)
RECURSIVE RunDigestSelect(_, _, _, _, _, _)
RunDigestSelect(articles, dc, enriched_articles, nf, clock, enrich_fail) ==
    IF articles = <<>>
    THEN [dc |-> dc, enriched_articles |-> enriched_articles, raised |-> FALSE]
    ELSE LET article == Head(articles)
             dup     == is_duplicate(dc, article.url, article.title, clock)
             e       == try_enrich_article(article, enrich_fail)
         IN  IF dup.result
             THEN RunDigestSelect(Tail(articles), dup.dc, enriched_articles, nf, clock, enrich_fail)
             ELSE IF e.raised
             THEN [dc |-> dup.dc, enriched_articles |-> enriched_articles, raised |-> TRUE]
             ELSE IF e.enriched # None /\ is_digest_worthy(nf, e.enriched)
             THEN RunDigestSelect(Tail(articles), dup.dc,
                                  Append(enriched_articles, e.enriched), nf, clock, enrich_fail)
             ELSE RunDigestSelect(Tail(articles), dup.dc, enriched_articles, nf, clock, enrich_fail)

(* the loop of _send_digest that prepares digest_data and marks as sent *)
RECURSIVE RunDigestData(_, _, _, _, _)
RunDigestData(top_articles, dc, digest_data, clock, llm_fail) ==
    IF top_articles = <<>> THEN [dc |-> dc, digest_data |-> digest_data, raised |-> FALSE]
    ELSE LET enriched == Head(top_articles)
             g        == generate_summary_and_guide(enriched, llm_fail)
         IN  IF g.raised THEN [dc |-> dc, digest_data |-> digest_data, raised |-> TRUE]
             ELSE RunDigestData(Tail(top_articles),
                                add(dc, enriched.article.url, enriched.article.title, clock),
                                Append(digest_data, [url |-> enriched.article.url,
                                                     ts |-> enriched.article.ts,
                                                     impact_score |-> enriched.impact_score,
                                                     summary |-> g.summary]),
                                clock, llm_fail)

(* _send_digest as a function of what it reads.  datetime.now() is the
   local wall clock without a time zone; a.ts.replace(tzinfo=None) is the
   UTC wall clock of the article. *)
digest_run(hours_back, dc, nf, clock, feed, field, utc_offset, enrich_fail, llm_fail) ==
    LET articles        == collect({parse_entry(e, field, utc_offset) : e \in feed})
        cutoff          == (clock + utc_offset) - hours_back
        recent_articles == SelectSeq(articles, LAMBDA a : a.ts > cutoff)
        selected        == RunDigestSelect(recent_articles, dc, <<>>, nf, clock, enrich_fail)
        sorted          == SortByImpact(selected.enriched_articles)
        top_articles    == SubSeq(sorted, 1, Min(10, Len(sorted)))
        data            == RunDigestData(top_articles, selected.dc, <<>>, clock, llm_fail)
        considered      == {a.url : a \in Range(recent_articles)}
    IN  IF selected.raised
        THEN [dc |-> selected.dc, considered |-> considered, dispatched |-> <<>>, raised |-> TRUE]
        ELSE IF top_articles = <<>>
        THEN [dc |-> selected.dc, considered |-> considered, dispatched |-> <<>>, raised |-> FALSE]
        ELSE IF data.raised
        THEN [dc |-> data.dc, considered |-> considered, dispatched |-> <<>>, raised |-> TRUE]
        ELSE [dc |-> data.dc, considered |-> considered, dispatched |-> data.digest_data,
              raised |-> FALSE]

HoursBack(job) == IF job = "morning" THEN 12 ELSE 16

job_run(job, dc, nf, clock, feed, field, utc_offset, enrich_fail, llm_fail) ==
    IF job = "breaking"
    THEN breaking_run(dc, nf, clock, feed, field, utc_offset, enrich_fail, llm_fail)
    ELSE digest_run(HoursBack(job), dc, nf, clock, feed, field, utc_offset, enrich_fail, llm_fail)

RunIdle == last_run.job = "none"

RunJob(job, feed, field, utc_offset, enrich_fail, llm_fail, down) ==
    \E run \in {job_run(job, [cache |-> cache, title_cache |-> title_cache], cfg, now,
                         feed, field, utc_offset, enrich_fail, llm_fail)} :
    LET before == [cache |-> cache, title_cache |-> title_cache]
        urls   == {run.dispatched[i].url : i \in DOMAIN run.dispatched}
    IN  /\ RunIdle
        /\ cache' = run.dc.cache
        /\ title_cache' = run.dc.title_cache
        /\ breaking_sent' = IF job = "breaking" THEN breaking_sent \cup urls ELSE breaking_sent
        /\ digest_sent' = IF job = "breaking" THEN digest_sent ELSE digest_sent \cup urls
        /\ last_run' = [job |-> job, feed |-> feed, field |-> field, utc_offset |-> utc_offset,
                        enrich_fail |-> enrich_fail, llm_fail |-> llm_fail, before |-> before,
                        considered |-> run.considered, dispatched |-> run.dispatched,
                        raised |-> run.raised,
                        success |-> \/ run.dispatched = <<>>
                                    \/ send_news(cfg.webhooks, down).success]
        /\ UNCHANGED <<cfg, now, dedup_vars, flt, jobs, fx_vars>>

RunFaults(job) ==
    /\ RunIdle
    /\ \E feed \in SUBSET FeedEntries, field \in TimestampFields, utc_offset \in UtcOffsets,
          down \in SUBSET Webhooks :
          \E enrich_fail \in SUBSET {e.url : e \in feed}, llm_fail \in SUBSET {e.url : e \in feed} :
              RunJob(job, feed, field, utc_offset, enrich_fail, llm_fail, down)

RunBreakingCheck == RunFaults("breaking")

RunMorningDigest == RunFaults("morning")

RunNightDigest == RunFaults("night")

InitRun == PureInit /\ FilterIdle

NextRun == RunBreakingCheck \/ RunMorningDigest \/ RunNightDigest

SpecRun == InitRun /\ [][NextRun]_vars

Dispatched(run) == [i \in DOMAIN run.dispatched |-> run.dispatched[i].url]

(* C21: an article whose summarize or generate_action_guide call fails is
   dispatched all the same, in the same run: the run raises nothing, it
   dispatches exactly the articles it dispatches when no LLM call fails,
   and each article whose LLM call failed carries the fallback summary made
   of the template and the article's title *)
Theorem_C21 ==
    last_run.job # "none" =>
        LET healthy == job_run(last_run.job, last_run.before, cfg, now, last_run.feed,
                               last_run.field, last_run.utc_offset, last_run.enrich_fail, {})
        IN  /\ ~last_run.raised
            /\ Dispatched(last_run) = Dispatched(healthy)
            /\ \A i \in DOMAIN last_run.dispatched :
                  last_run.dispatched[i].url \in last_run.llm_fail =>
                      last_run.dispatched[i].summary
                          = FallbackSummary(EntryOf(last_run.dispatched[i].url).title)

Witness_C21 ==
    /\ last_run.job = "breaking"
    /\ last_run.llm_fail = {"u1"}
    /\ Len(last_run.dispatched) = 2
    /\ \E i \in DOMAIN last_run.dispatched :
          /\ last_run.dispatched[i].url = "u1"
          /\ last_run.dispatched[i].summary = FallbackSummary(TitleEcbCut)

Examined(run) == {e \in run.feed : e.url \notin run.enrich_fail}

(* C22: when the enrichment of some articles of a batch raises, only those
   articles are skipped: no exception reaches the job's except clause, and
   the run dispatches exactly what it dispatches on the batch without the
   failed articles *)
Theorem_C22 ==
    last_run.job # "none" =>
        LET others == job_run(last_run.job, last_run.before, cfg, now, Examined(last_run),
                              last_run.field, last_run.utc_offset, {},
                              last_run.llm_fail \ last_run.enrich_fail)
        IN  /\ ~last_run.raised
            /\ last_run.dispatched = others.dispatched

Witness_C22 ==
    /\ last_run.job = "breaking"
    /\ last_run.field = "published"
    /\ last_run.feed = FeedEntries
    /\ last_run.enrich_fail = {"u1"}
    /\ Dispatched(last_run) = <<"u2">>

(* C23: the items of a digest message are in non-increasing order of impact
   score, and a breaking check dispatches its qualifying articles oldest
   first *)
Claim_C23 ==
    \A i, j \in DOMAIN last_run.dispatched :
        i < j =>
            IF last_run.job = "breaking"
            THEN EntryOf(last_run.dispatched[i].url).published
                     <= EntryOf(last_run.dispatched[j].url).published
            ELSE last_run.dispatched[i].impact_score >= last_run.dispatched[j].impact_score

InWindow(feed, hours_back) ==
    {e.url : e \in {x \in feed : x.published > now - hours_back /\ x.published <= now}}

(* C24: a morning digest run considers exactly the collected articles
   published in the 12 hours before the run, a night digest run those of
   the 16 hours before it, whatever the offset of the local time zone *)
Claim_C24 ==
    last_run.job \in {"morning", "night"} =>
        last_run.considered = InWindow(last_run.feed, HoursBack(last_run.job))

(***************************************************************************)
(* DiscordDelivery.send_news with its payloads.  A dict is a record whose  *)
(* "fields" entry is a reference to a list object of the heap; the heap    *)
(* maps each reference to the list's current contents.                     *)
(***************************************************************************)
SummarySections == {"ja:youten", "ja:naze juuyou ka", "ja:kanren pea"}

ExcerptField == "ja:genbun bassui"

(* original_excerpt: missing, empty (article.body[:200] of an empty body), or a text *)
OriginalExcerpts == {"None", "", "excerpt"}

Optional(present, field) == IF present THEN <<field>> ELSE <<>>

(* the embed dict and the heap holding its fields list *)
create_news_embed(sections, action_guide, disclaimer) ==
    [embed |-> [title |-> "title", fields |-> "list1"],
     heap  |-> [ref \in {"list1"} |->
                   Optional("ja:youten" \in sections, "ja:youten")
                   \o Optional("ja:naze juuyou ka" \in sections, "ja:naze juuyou ka")
                   \o Optional("ja:kanren pea" \in sections, "ja:kanren pea")
                   \o <<"ja:kakudo">>
                   \o Optional(action_guide, "ja:tsugi no itte")
                   \o <<"checklist">>
                   \o Optional(disclaimer, "ja:menseki jikou")]]

(* dict.copy(): a new dict with the same values, references included *)
copy(dict) == dict

(* list.insert(index, x) on the list object a reference names *)
insert(heap, ref, index, x) ==
    LET list == heap[ref]
        at   == Min(index, Len(list))
    IN  [heap EXCEPT ![ref] = SubSeq(list, 1, at) \o <<x>> \o SubSeq(list, at + 1, Len(list))]

(* what json=payload serialises when the POST is made *)
Payload(dict, heap) == [title |-> dict.title, fields |-> heap[dict.fields]]

DiscordDelivery_send_news(sections, action_guide, disclaimer, original_excerpt, webhook_beginner, webhook_pro, down) ==
    LET created          == create_news_embed(sections, action_guide, disclaimer)
        embed            == created.embed
        beginner_payload == embed
        pro_payload      == copy(embed)
        heap             == IF original_excerpt \notin {"None", ""} /\ webhook_pro
                            THEN insert(created.heap, pro_payload.fields, 1, ExcerptField)
                            ELSE created.heap
        attempted        == {w \in Webhooks : IF w = "beginner" THEN webhook_beginner
                                                               ELSE webhook_pro}
    IN  [attempted |-> attempted,
         posted    |-> [w \in attempted |->
                           Payload(IF w = "beginner" THEN beginner_payload ELSE pro_payload, heap)],
         success   |-> \A w \in attempted : send_webhook(w, down)]

InitSendNews ==
    /\ PureInit
    /\ \E sections \in SUBSET SummarySections, action_guide \in BOOLEAN, disclaimer \in BOOLEAN,
          original_excerpt \in OriginalExcerpts, webhook_beginner \in BOOLEAN,
          webhook_pro \in BOOLEAN, down \in SUBSET Webhooks :
          flt = [fn |-> "input", sections |-> sections, action_guide |-> action_guide,
                 disclaimer |-> disclaimer, original_excerpt |-> original_excerpt,
                 webhook_beginner |-> webhook_beginner, webhook_pro |-> webhook_pro,
                 down |-> down]

ApplySendNews ==
    /\ flt.fn = "input"
    /\ flt' = [flt EXCEPT !.fn = "send_news"] @@
              [value |-> DiscordDelivery_send_news(flt.sections, flt.action_guide, flt.disclaimer,
                                                   flt.original_excerpt, flt.webhook_beginner,
                                                   flt.webhook_pro, flt.down)]
    /\ PureUnchanged

NextSendNews == ApplySendNews

SpecSendNews == InitSendNews /\ [][NextSendNews]_vars

(* C30: the payload posted to the beginner webhook never contains the
   original-excerpt field, and when the beginner post fails the pro
   webhook, if configured, is attempted all the same *)
Claim_C30 ==
    flt.fn = "send_news" =>
        /\ "beginner" \in flt.value.attempted =>
              \A i \in DOMAIN flt.value.posted["beginner"].fields :
                  flt.value.posted["beginner"].fields[i] # ExcerptField
        /\ flt.webhook_pro /\ "beginner" \in flt.down => "pro" \in flt.value.attempted

(***************************************************************************)
(* FX/Phase1 fx_news.py is a program of its own.  While it is modelled the *)
(* NewsScheduler stays as constructed.                                     *)
(***************************************************************************)
BotIdle ==
    /\ cfg = DefaultConfig
    /\ now = 0
    /\ cache = <<>>
    /\ title_cache = <<>>
    /\ SchedIdle
    /\ DedupIdle
    /\ FilterIdle
    /\ JobsIdle

BotUnchanged == UNCHANGED <<cfg, now, cache, title_cache, sched_vars, dedup_vars, flt, jobs>>

(***************************************************************************)
(* fx_news main: the --lock file.  lock.path is the file (inode) the lock  *)
(* path names, lock.held maps a file to the process whose open file holds  *)
(* the flock on it, lock.procs gives each process its position in main and *)
(* the file its lock_file is open on.                                      *)
(***************************************************************************)
Procs == {"p1", "p2", "p3"}

NoFile == 0

InitLock ==
    /\ BotIdle
    /\ fx = [mode |-> "none"]
    /\ lock = [path |-> NoFile, files |-> 0, held |-> <<>>,
               procs |-> [p \in Procs |-> [pc |-> "start", lock_file |-> NoFile]]]

(* open(args.lock, 'w'): opens the file the path names, creating one if none *)
LockOpen(p) ==
    /\ lock.procs[p].pc = "start"
    /\ LET created == lock.path = NoFile
           file    == IF created THEN lock.files + 1 ELSE lock.path
       IN  lock' = [lock EXCEPT !.path = file,
                                !.files = IF created THEN @ + 1 ELSE @,
                                !.procs[p] = [pc |-> "opened", lock_file |-> file]]
    /\ UNCHANGED fx
    /\ BotUnchanged

(* fcntl.flock(LOCK_EX | LOCK_NB): taken if no other open file holds it,
   and then cleanup_lock is registered and the mode runs; otherwise IOError
   and sys.exit(1), which closes lock_file *)
LockFlock(p) ==
    /\ lock.procs[p].pc = "opened"
    /\ LET file == lock.procs[p].lock_file
       IN  IF file \in DOMAIN lock.held
           THEN lock' = [lock EXCEPT !.procs[p] = [pc |-> "failed", lock_file |-> NoFile]]
           ELSE lock' = [lock EXCEPT !.held = [f \in DOMAIN lock.held \cup {file} |->
                                                 IF f = file THEN p ELSE lock.held[f]],
                                     !.procs[p].pc = "running"]
    /\ UNCHANGED fx
    /\ BotUnchanged

(* cleanup_lock at exit: fcntl.flock(LOCK_UN) *)
LockUnlock(p) ==
    /\ lock.procs[p].pc = "running"
    /\ lock' = [lock EXCEPT !.held = Restrict(lock.held, DOMAIN lock.held \ {lock.procs[p].lock_file}),
                            !.procs[p].pc = "unlocked"]
    /\ UNCHANGED fx
    /\ BotUnchanged

(* cleanup_lock: lock_file.close() *)
LockClose(p) ==
    /\ lock.procs[p].pc = "unlocked"
    /\ lock' = [lock EXCEPT !.procs[p] = [pc |-> "closed", lock_file |-> NoFile]]
    /\ UNCHANGED fx
    /\ BotUnchanged

(* cleanup_lock: os.remove(args.lock) unlinks whatever file the path names;
   a missing file is ignored *)
LockRemove(p) ==
    /\ lock.procs[p].pc = "closed"
    /\ lock' = [lock EXCEPT !.path = NoFile, !.procs[p].pc = "exited"]
    /\ UNCHANGED fx
    /\ BotUnchanged

NextLock ==
    \/ \E p \in Procs : LockOpen(p)
    \/ \E p \in Procs : LockFlock(p)
    \/ \E p \in Procs : LockUnlock(p)
    \/ \E p \in Procs : LockClose(p)
    \/ \E p \in Procs : LockRemove(p)

SpecLock == InitLock /\ [][NextLock]_vars

PastAcquisition == {p \in Procs : lock.procs[p].pc = "running"}

(* C25: of the processes started with the same --lock path, at most one is
   past lock acquisition at any time *)
Claim_C25 == Cardinality(PastAcquisition) <= 1

(***************************************************************************)
(* fx_news: the database (tables seen and articles), the packing of a      *)
(* Discord message, and the fetch-alert mode.  Times are hours; a text is  *)
(* modelled by its length.                                                 *)
(***************************************************************************)
DISCORD_LIMIT == 1900

(* len() of the headers and of the truncation marker *)
AlertHeaderLen == 13

DigestHeaderLen == 67

MarkerLen == 8

NULL == -1

(* the urls the feeds can carry, in feed order *)
FxUrls == <<"f1", "f2", "f3", "f4", "f5">>

(* len(build_digest_block(...)) of each article: three bullets of at most
   140 characters, then the url, its host and the pair tags *)
FxBlockLen(url) == IF url \in {"f4", "f5"} THEN 1000 ELSE 600

EmptyDb == [seen |-> {}, articles |-> <<>>]

(* is_seen: a row of the seen table; and the same judged by a posted alert *)
is_seen_alerted(db, url) ==
    url \in DOMAIN db.articles /\ db.articles[url].alert_posted_at # NULL

is_seen(db, url) == url \in db.seen

ensure_seen(db, url) == [db EXCEPT !.seen = @ \cup {url}]

(* INSERT ... ON CONFLICT(id) DO UPDATE: a new row gets created_at, an
   existing one keeps created_at, alert_posted_at and digest_date_jst *)
upsert_article(db, url, clock) ==
    IF url \in DOMAIN db.articles THEN db
    ELSE [db EXCEPT !.articles = [u \in DOMAIN db.articles \cup {url} |->
                                    IF u = url
                                    THEN [created_at |-> clock, alert_posted_at |-> NULL,
                                          digest_date_jst |-> NULL]
                                    ELSE db.articles[u]]]

mark_alert_posted(db, url, clock) ==
    IF url \in DOMAIN db.articles
    THEN [db EXCEPT !.articles[url].alert_posted_at = clock]
    ELSE db

mark_digest_date(db, url, date_jst) ==
    IF url \in DOMAIN db.articles
    THEN [db EXCEPT !.articles[url].digest_date_jst = date_jst]
    ELSE db

(* _pack_blocks_to_limit on lengths: the length of the message and the
   number of blocks used *)
RECURSIVE PackLoop(_, _, _, _, _)
PackLoop(header, blocks, message, used, limit) ==
    IF blocks = <<>> THEN [message |-> message, used |-> used]
    ELSE LET candidate == message + 2 + Head(blocks)
             available == limit - header - 2
         IN  IF candidate <= limit
             THEN PackLoop(header, Tail(blocks), candidate, used + 1, limit)
             ELSE IF used = 0 /\ available > 10
                  THEN [message |-> header + 2 + Min(Head(blocks), available - 9) + MarkerLen,
                        used |-> 1]
                  ELSE [message |-> message, used |-> used]

pack_blocks_to_limit(header, blocks, limit) ==
    LET packed == PackLoop(header, blocks, header, 0, limit)
    IN  [message |-> IF packed.message > limit THEN (limit - 9) + MarkerLen ELSE packed.message,
         used    |-> packed.used]

(* the candidate loop of mode_fetch_alert.  fetched are the urls for which
   process_candidate returns an article, high those it scores 3 or more. *)
RECURSIVE FetchLoop(_, _, _, _, _, _, _, _)
FetchLoop(uniq, db, prepared_new, count_processed, max_items, fetched, high, clock) ==
    IF uniq = <<>> \/ count_processed >= max_items
    THEN [db |-> db, prepared_new |-> prepared_new]
    ELSE LET url     == Head(uniq)
             already == is_seen(db, url)
         IN  IF url \notin fetched
             THEN FetchLoop(Tail(uniq), db, prepared_new, count_processed, max_items,
                            fetched, high, clock)
             ELSE FetchLoop(Tail(uniq), ensure_seen(upsert_article(db, url, clock), url),
                            IF ~already /\ url \in high THEN Append(prepared_new, url)
                                                       ELSE prepared_new,
                            count_processed + 1, max_items, fetched, high, clock)

RECURSIVE MarkAlerts(_, _, _)
MarkAlerts(urls, db, clock) ==
    IF urls = <<>> THEN db
    ELSE MarkAlerts(Tail(urls), mark_alert_posted(db, Head(urls), clock), clock)

(* mode_fetch_alert with a webhook configured and without --dry-run.
   ok is the result of post_to_discord during the run. *)
mode_fetch_alert(db, clock, uniq, max_items, fetched, high, ok) ==
    LET loop            == FetchLoop(uniq, db, <<>>, 0, max_items, fetched, high, clock)
        prepared_new    == loop.prepared_new
        one_hour_ago    == clock - 1
        recent_count    == Cardinality({u \in DOMAIN loop.db.articles :
                               /\ loop.db.articles[u].alert_posted_at # NULL
                               /\ loop.db.articles[u].alert_posted_at >= one_hour_ago})
        remaining_slots == Max(0, 3 - recent_count)
        individual      == SubSeq(prepared_new, 1, Min(remaining_slots, Len(prepared_new)))
        batched         == SubSeq(prepared_new, Len(individual) + 1, Len(prepared_new))
        packed          == pack_blocks_to_limit(AlertHeaderLen,
                                                [i \in DOMAIN batched |-> FxBlockLen(batched[i])],
                                                DISCORD_LIMIT)
        in_batch        == SubSeq(batched, 1, packed.used)
        after_single    == IF ok THEN MarkAlerts(individual, loop.db, clock) ELSE loop.db
        after_batch     == IF ok THEN MarkAlerts(in_batch, after_single, clock) ELSE after_single
    IN  [db |-> after_batch, prepared_new |-> prepared_new, recent_count |-> recent_count,
         individual |-> IF ok THEN individual ELSE <<>>,
         batched |-> batched,
         in_batch |-> IF ok THEN in_batch ELSE <<>>]

(* --max-items, default *)
MaxItems == 20

(* runs of fetch-alert on one database, the clock advancing between them *)
MaxRuns == 2

MaxAlertHours == 2

NoRun == [mode |-> "none"]

InitFxAlert ==
    /\ BotIdle
    /\ lock = [path |-> "none"]
    /\ fx = [mode |-> "fetch-alert", now |-> 0, runs |-> 0, db |-> EmptyDb, last |-> NoRun,
             individual_at |-> <<>>,
             alert_runs |-> [u \in Range(FxUrls) |-> {}],
             seen_run |-> [u \in Range(FxUrls) |-> 0]]

(* what a run finds in the feeds: the entries published so far *)
FxFeeds == {SubSeq(FxUrls, 1, j) : j \in 0..Len(FxUrls)}

(* at most the first article of a run is one process_candidate gives up on,
   and at most the first is one it scores below 3 *)
FirstOf(uniq) == IF uniq = <<>> THEN {{}} ELSE {{}, {Head(uniq)}}

FetchAlert ==
    /\ fx.runs < MaxRuns
    /\ \E uniq \in FxFeeds, ok \in BOOLEAN :
       \E unfetched \in FirstOf(uniq), low \in FirstOf(uniq) :
          LET run == mode_fetch_alert(fx.db, fx.now, uniq, MaxItems,
                                      Range(uniq) \ unfetched, Range(uniq) \ low, ok)
              n   == fx.runs + 1
          IN  fx' = [fx EXCEPT
                       !.runs = n,
                       !.db = run.db,
                       !.last = [mode |-> "fetch-alert", ok |-> ok,
                                 uniq |-> uniq,
                                 prepared_new |-> run.prepared_new,
                                 recent_count |-> run.recent_count,
                                 individual |-> run.individual, batched |-> run.batched,
                                 in_batch |-> run.in_batch],
                       !.individual_at = @ \o [i \in DOMAIN run.individual |-> fx.now],
                       !.alert_runs = [u \in Range(FxUrls) |->
                                         IF u \in Range(run.prepared_new) THEN @[u] \cup {n}
                                                                          ELSE @[u]],
                       !.seen_run = [u \in Range(FxUrls) |->
                                       IF u \in run.db.seen /\ u \notin fx.db.seen THEN n
                                                                                  ELSE @[u]]]
    /\ UNCHANGED lock
    /\ BotUnchanged

AlertTick ==
    /\ fx.now < MaxAlertHours
    /\ fx' = [fx EXCEPT !.now = @ + 1]
    /\ UNCHANGED lock
    /\ BotUnchanged

NextFxAlert == FetchAlert \/ AlertTick

SpecFxAlert == InitFxAlert /\ [][NextFxAlert]_vars

(* C26: in every one-hour window at most 3 alerts are posted as individual
   messages; a run that finds r alerts posted in the preceding hour posts at
   most max(0, 3 - r) individual messages, and every further qualifying
   article of the run goes into its one batched message *)
Claim_C26 ==
    /\ \A t \in 0..MaxAlertHours :
          Cardinality({i \in DOMAIN fx.individual_at :
                          fx.individual_at[i] >= t /\ fx.individual_at[i] <= t + 1}) <= 3
    /\ fx.last.mode = "fetch-alert" /\ fx.last.ok =>
          /\ Len(fx.last.individual) <= Max(0, 3 - fx.last.recent_count)
          /\ fx.last.individual \o fx.last.in_batch = fx.last.prepared_new

(* C27: over the fetch-alert runs on one database a url is selected for an
   alert in at most one run, and that run is the one that first recorded
   it in the seen table *)
Theorem_C27 ==
    \A u \in Range(FxUrls) :
        /\ Cardinality(fx.alert_runs[u]) <= 1
        /\ fx.alert_runs[u] \subseteq {fx.seen_run[u]}

(* the first alert post of f1 failed, and the next run finds f1 again *)
Witness_C27 ==
    /\ fx.runs = 2
    /\ fx.alert_runs["f1"] = {1}
    /\ fx.db.articles["f1"].alert_posted_at = NULL
    /\ "f1" \in Range(fx.last.uniq)
    /\ "f1" \notin Range(fx.last.prepared_new)
    /\ fx.last.prepared_new # <<>>

(***************************************************************************)
(* fx_news digest mode.  The clock is UTC; tz_name is Asia/Tokyo, the      *)
(* default of --tz.                                                        *)
(***************************************************************************)
(* utcoffset of Asia/Tokyo, hours *)
TzOffset == 9

astimezone_local(utc) == utc + TzOffset

astimezone_utc(local) == local - TzOffset

(* now_local.replace(hour=h, minute=0, ...) *)
replace_hour(local, h) == (local \div 24) * 24 + h

(* jst_window: start and end of the window in UTC, and the local date *)
jst_window(now_utc, kind) ==
    LET now_local == astimezone_local(now_utc)
        pivot     == replace_hour(now_local, 6)
    IN  IF kind = "day"
        THEN [start_utc |-> astimezone_utc(replace_hour(now_local, 0)),
              end_utc   |-> astimezone_utc(now_local),
              date_jst  |-> now_local \div 24]
        ELSE [start_utc |-> astimezone_utc(pivot - 24),
              end_utc   |-> astimezone_utc(pivot),
              date_jst  |-> pivot \div 24]

FeedIndex(url) == CHOOSE i \in DOMAIN FxUrls : FxUrls[i] = url

(* ORDER BY created_at ASC; rows of equal created_at in the order of insertion *)
RECURSIVE OrderRows(_, _)
OrderRows(urls, db) ==
    IF urls = {} THEN <<>>
    ELSE LET first == CHOOSE u \in urls : \A v \in urls :
                         \/ db.articles[u].created_at < db.articles[v].created_at
                         \/ /\ db.articles[u].created_at = db.articles[v].created_at
                            /\ FeedIndex(u) <= FeedIndex(v)
         IN  <<first>> \o OrderRows(urls \ {first}, db)

RECURSIVE MarkDigest(_, _, _)
MarkDigest(urls, db, date_jst) ==
    IF urls = <<>> THEN db
    ELSE MarkDigest(Tail(urls), mark_digest_date(db, Head(urls), date_jst), date_jst)

(* the urls mode_digest marks: urls[:used] when the post succeeded; and
   the same whatever the post returned *)
digest_marked_unposted(urls, used, ok) == SubSeq(urls, 1, used)

digest_marked(urls, used, ok) == IF ok THEN SubSeq(urls, 1, used) ELSE <<>>

(* mode_digest with a webhook configured and without --dry-run.
   ok is the result of post_to_discord. *)
mode_digest(db, clock, max_digest_items, digest_kind, ok) ==
    LET window == jst_window(clock, digest_kind)
        rows   == OrderRows({u \in DOMAIN db.articles :
                               /\ db.articles[u].created_at >= window.start_utc
                               /\ db.articles[u].created_at < window.end_utc
                               /\ db.articles[u].digest_date_jst = NULL}, db)
        urls   == SubSeq(rows, 1, Min(max_digest_items, Len(rows)))
        packed == pack_blocks_to_limit(DigestHeaderLen,
                                       [i \in DOMAIN urls |-> FxBlockLen(urls[i])],
                                       DISCORD_LIMIT)
        marked == digest_marked(urls, packed.used, ok)
    IN  IF rows = <<>> \/ packed.used <= 0
        THEN [db |-> db, rows |-> rows, urls |-> urls, used |-> packed.used,
              posted |-> <<>>, date_jst |-> window.date_jst]
        ELSE [db |-> MarkDigest(marked, db, window.date_jst),
              rows |-> rows, urls |-> urls, used |-> packed.used,
              posted |-> IF ok THEN SubSeq(urls, 1, packed.used) ELSE <<>>,
              date_jst |-> window.date_jst]

(* the articles of the digest runs: f1 and f4 fit in one message, f4 and f5
   do not *)
DigestUrls == <<"f1", "f4", "f5">>

DigestFeeds == {SubSeq(DigestUrls, 1, j) : j \in 0..Len(DigestUrls)}

(* --max-digest-items: one item, or the default *)
MaxDigestItems == {1, 20}

DigestKinds == {"morning", "day"}

(* the clock starts at 09:00 UTC, 18:00 local time, and is read every 12
   hours, so that 21:00 UTC, 06:00 local time, is read each day *)
FirstHour == 9

MaxDays == 2

InitFxDigest ==
    /\ BotIdle
    /\ lock = [path |-> "none"]
    /\ fx = [mode |-> "digest", now |-> FirstHour, db |-> EmptyDb, last |-> NoRun,
             included |-> [u \in Range(DigestUrls) |-> 0]]

(* a fetch-alert run between the digests *)
DigestFetchAlert ==
    /\ \E uniq \in DigestFeeds :
          LET run == mode_fetch_alert(fx.db, fx.now, uniq, MaxItems, Range(uniq), Range(uniq), TRUE)
          IN  fx' = [fx EXCEPT !.db = run.db,
                               !.last = [mode |-> "fetch-alert", ok |-> TRUE, uniq |-> uniq]]
    /\ UNCHANGED lock
    /\ BotUnchanged

DigestRun(max_digest_items, digest_kind, ok) ==
    LET run == mode_digest(fx.db, fx.now, max_digest_items, digest_kind, ok)
    IN  /\ fx' = [fx EXCEPT
                    !.db = run.db,
                    !.last = [mode |-> "digest", ok |-> ok, before |-> fx.db,
                              rows |-> run.rows, urls |-> run.urls, used |-> run.used,
                              posted |-> run.posted, date_jst |-> run.date_jst],
                    !.included = [u \in Range(DigestUrls) |->
                                    IF u \in Range(run.posted) THEN Min(2, @[u] + 1) ELSE @[u]]]
        /\ UNCHANGED lock
        /\ BotUnchanged

Digest == \E max_digest_items \in MaxDigestItems, digest_kind \in DigestKinds, ok \in BOOLEAN :
             DigestRun(max_digest_items, digest_kind, ok)

DigestTick ==
    /\ fx.now + 12 < FirstHour + 24 * MaxDays
    /\ fx' = [fx EXCEPT !.now = @ + 12]
    /\ UNCHANGED lock
    /\ BotUnchanged

NextFxDigest == DigestFetchAlert \/ Digest \/ DigestTick

SpecFxDigest == InitFxDigest /\ [][NextFxDigest]_vars

Marked(db) == {u \in DOMAIN db.articles : db.articles[u].digest_date_jst # NULL}

(* C28: an article is in at most one successfully posted digest: a digest
   run selects no article whose digest_date_jst is set, and it sets
   digest_date_jst for exactly the first `used` articles when the post
   succeeded and for none when it failed *)
Theorem_C28 ==
    /\ \A u \in Range(DigestUrls) : fx.included[u] <= 1
    /\ fx.last.mode = "digest" =>
          /\ Range(fx.last.rows) \cap Marked(fx.last.before) = {}
          /\ Marked(fx.db) \ Marked(fx.last.before)
                = IF fx.last.ok /\ fx.last.used > 0
                  THEN Range(SubSeq(fx.last.urls, 1, fx.last.used)) ELSE {}
          /\ \A u \in Marked(fx.db) \ Marked(fx.last.before) :
                fx.db.articles[u].digest_date_jst = fx.last.date_jst

(* a digest was posted that left an article out, after an earlier digest
   whose articles were within the window again *)
Witness_C28 ==
    /\ fx.last.mode = "digest"
    /\ fx.last.ok
    /\ fx.last.used > 0
    /\ fx.last.used < Len(fx.last.rows)
    /\ \E u \in Marked(fx.last.before) :
          LET window == jst_window(fx.now, "morning")
          IN  /\ fx.db.articles[u].created_at >= window.start_utc
              /\ fx.db.articles[u].created_at < window.end_utc

(***************************************************************************)
(* fx_news run from cron: fetch-alert runs through the first day, the      *)
(* morning digest every day at 06:00 local time, every post succeeding.    *)
(***************************************************************************)
(* --max-digest-items, default *)
DefaultMaxDigestItems == 20

DigestDue == astimezone_local(fx.now) % 24 = 6 /\ fx.digest_done < astimezone_local(fx.now) \div 24

(* 21:00 UTC of the first day, when the first digest runs *)
FirstDigestHour == astimezone_utc(24 + 6)

DailySubFeeds == {SelectSeq(DigestUrls, LAMBDA u : u \in S) : S \in SUBSET Range(DigestUrls)}

InitFxDaily ==
    /\ BotIdle
    /\ lock = [path |-> "none"]
    /\ fx = [mode |-> "cron", now |-> FirstHour, db |-> EmptyDb, last |-> NoRun, digest_done |-> 0]

DailyFetchAlert ==
    /\ fx.now < FirstDigestHour
    /\ \E uniq \in DailySubFeeds :
          LET run == mode_fetch_alert(fx.db, fx.now, uniq, MaxItems, Range(uniq), Range(uniq), TRUE)
          IN  fx' = [fx EXCEPT !.db = run.db,
                               !.last = [mode |-> "fetch-alert", ok |-> TRUE, uniq |-> uniq]]
    /\ UNCHANGED lock
    /\ BotUnchanged

DailyDigest ==
    /\ DigestDue
    /\ LET run == mode_digest(fx.db, fx.now, DefaultMaxDigestItems, "morning", TRUE)
       IN  fx' = [fx EXCEPT !.db = run.db,
                            !.last = [mode |-> "digest", ok |-> TRUE, before |-> fx.db,
                                      rows |-> run.rows, urls |-> run.urls, used |-> run.used,
                                      posted |-> run.posted, date_jst |-> run.date_jst],
                            !.digest_done = astimezone_local(fx.now) \div 24]
    /\ UNCHANGED lock
    /\ BotUnchanged

(* the clock is read every 6 hours; it does not pass 06:00 without the digest *)
DailyTick ==
    /\ ~DigestDue
    /\ fx.now + 6 < FirstHour + 24 * MaxDays
    /\ fx' = [fx EXCEPT !.now = @ + 6]
    /\ UNCHANGED lock
    /\ BotUnchanged

NextFxDaily == DailyFetchAlert \/ DailyDigest \/ DailyTick

SpecFxDaily == InitFxDaily /\ [][NextFxDaily]_vars

(* the instant of the next 06:00 digest *)
NextDigestHour ==
    IF DigestDue THEN fx.now
    ELSE CHOOSE t \in fx.now + 1 .. fx.now + 24 : astimezone_local(t) % 24 = 6

(* C29: with the morning digest run every day at 06:00 and every post
   succeeding, every article stored by fetch-alert ends up in a digest, an
   article left out of one digest being picked up by a later one.  The
   windows of the digests only move forward, so this needs every stored
   article that has not been in a digest to be no older than the start of
   the window of the next digest. *)
Claim_C29 ==
    \A u \in DOMAIN fx.db.articles :
        u \notin Marked(fx.db) =>
            fx.db.articles[u].created_at >= jst_window(NextDigestHour, "morning").start_utc

====
